---------------------------- MODULE Spec2Model ----------------------------
(***************************************************************************)
(* Model of core/api_manager.py (class APIManager): the per-provider call  *)
(* ledger with its trailing 60-second window, the provider adapters and    *)
(* the get_market_data fallback chain.                                     *)
(*                                                                         *)
(* Time is the value of time.time(), in whole seconds.  One handler runs   *)
(* at one clock value; the clock moves between handlers (action Tick).     *)
(* The symbol argument is left out: no branch of the modelled code         *)
(* depends on it.  db_manager.add_log is the logging sink; it is taken as  *)
(* total (it never raises) and its rows for one invocation are `log`.      *)
(***************************************************************************)
EXTENDS Integers, Sequences, FiniteSets, TLC

(***************************************************************************)
(* Bounds of the model.                                                    *)
(***************************************************************************)
\* the clock stops at MaxTime
MaxTime == 60
\* most timestamps, over all ledgers, that the stand-alone limiter
\* specification records
MaxLedger == 3
\* The per-minute budgets of the source (60, 8, 5, 100, 2000) are scaled
\* down: the code reads limits[P] only in `len(ledger) >= limits[P]`.
\* finnhub, the provider every operation shares, gets Budget calls per
\* minute, so that its ledger can be partly used; the others get one.
Budget == 2
\* The most bars a response may hold.  The source's 100 is scaled down: the
\* code uses it only as the length of the tail slices hist.tail(100) and
\* [-100:].
Cap == 3

(***************************************************************************)
(* Program constants.                                                      *)
(***************************************************************************)
\* `now - call_time < 60`
Window == 60

Apis == {"finnhub", "twelve_data", "alpha_vantage", "newsapi", "yfinance"}

\* self.limits
limits ==
  [p \in Apis |-> IF p = "finnhub" THEN Budget ELSE 1]

\* the order of the other variant of the module: yfinance first
apis_to_try_yfinance_first == <<"yfinance", "finnhub", "twelve_data", "alpha_vantage">>

\* apis_to_try in get_market_data
apis_to_try == <<"finnhub", "twelve_data", "alpha_vantage", "yfinance">>

\* keys of finnhub_intervals / td_intervals / yf_intervals
ValidIntervals == {"1m", "30m", "1D"}
\* the interval arguments the model passes; "5m" is outside the closed set
IntervalArgs == {"1D", "5m"}

\* opaque secrets
Secrets == {"k1"}

None == [kind |-> "None"]

\* The opening balance.  The source's 100000.0 is scaled down: the code only
\* adds to it, subtracts from it and compares amounts with it.
StartBalance == 4

\* the database as init_database leaves a new file: one portfolio row, the
\* movement of the opening deposit, no trade
InitialDb ==
  [portfolio |-> [balance |-> StartBalance, total_deposited |-> StartBalance,
                  total_withdrawn |-> 0],
   trades |-> <<>>,
   portfolio_movements |->
     <<[type |-> "DEPOSIT", amount |-> StartBalance,
        balance_before |-> 0, balance_after |-> StartBalance]>>]

VARIABLES
  now,        \* time.time()
  last_calls, \* self.last_calls : provider -> list of call timestamps
  api_keys,   \* self.api_keys   : provider -> secret
  stored_keys, \* table api_keys : provider -> [api_key, is_active]
  tz,         \* offset of the machine's local time from UTC
  db,         \* tables portfolio, trades and portfolio_movements
  threads,    \* request threads inside the limiter: position and locals
  granted,    \* providers that update_api_keys gave a first credential
              \* since the last get_market_data
  op,         \* the operation whose result is being handed to the caller, or "idle"
  arg,        \* its argument
  ret,        \* its return value
  log,        \* rows written by add_log during the last get_market_data
  sent,       \* outbound requests of the last get_market_data, with the answers
  recorded,   \* providers passed to _record_api_call by the last operation
  denied      \* limiter specification: providers that a direct _check_rate_limit
              \* call refused and that recorded no call since

vars ==
  <<now, last_calls, api_keys, stored_keys, tz, db, threads, granted, op, arg, ret, log, sent, recorded, denied>>

(***************************************************************************)
(* Rate limiter                                                            *)
(***************************************************************************)
\* self.last_calls[api_name]; a provider without an entry in the dict has
\* the empty list (both methods create it before they read it)
Ledger(lc, p) == lc[p]

\* Prune with the window closed at its old end: a call exactly 60 seconds
\* old still counts
PruneKeepsBoundary(calls, t) == SelectSeq(calls, LAMBDA c : t - c <= Window)

\* Prune with a window half as long: it drops calls that still count
PruneHalfWindow(calls, t) == SelectSeq(calls, LAMBDA c : 2 * (t - c) < Window)

\* [call_time for call_time in ... if now - call_time < 60]
Prune(calls, t) == SelectSeq(calls, LAMBDA c : t - c < Window)

\* the ledger as _check_rate_limit leaves it
CheckCalls(lc, p, t) ==
  [lc EXCEPT ![p] = Prune(Ledger(lc, p), t)]

\* the comparison of _check_rate_limit off by one: a full ledger passes
CheckResultOffByOne(lc, p, t) ==
  IF Len(CheckCalls(lc, p, t)[p]) > limits[p] THEN FALSE ELSE TRUE

\* the value _check_rate_limit returns
CheckResult(lc, p, t) ==
  IF Len(CheckCalls(lc, p, t)[p]) >= limits[p] THEN FALSE ELSE TRUE

\* _record_api_call that forgets the call
RecordCallDropped(lc, p, t) == lc

\* _record_api_call
RecordCall(lc, p, t) ==
  [lc EXCEPT ![p] = Append(Ledger(lc, p), t)]

(***************************************************************************)
(* Provider answers and adapters                                           *)
(***************************************************************************)
\* One record of a provider payload.  t is its time; q tells how the record
\* is formed: "ok", "missing" (a field or column entry is absent),
\* "nonnum" (a value that float()/int() reject) or "null" (a JSON null).
Rec(t, q) == [t |-> t, q |-> q]

\* The payloads a provider answers with in the model.
Payloads ==
  { <<>>, <<Rec(1, "ok")>>, <<Rec(2, "ok")>>, <<Rec(1, "missing")>>,
    <<Rec(2, "ok"), Rec(1, "missing")>> }

\* What an outbound request comes back with:
\*   "error"  - timeout, connection error, non-2xx status, body that is not JSON
\*   "reject" - a JSON body without the data ('s' != 'ok', no 'values',
\*              no 'Time Series' key)
\*   "data"   - a body carrying the records recs
ErrorResp == [kind |-> "error", recs |-> <<>>]
RejectResp == [kind |-> "reject", recs |-> <<>>]
DataResp(recs) == [kind |-> "data", recs |-> recs]
\* placeholder for a provider that got no request
NoRequest == [kind |-> "norequest", recs |-> <<>>]

Responses == {ErrorResp, RejectResp} \cup {DataResp(r) : r \in Payloads}

\* results of an adapter: it raised, it returned None, or it returned a dict.
\* rec tells whether it called _record_api_call, req whether it sent a request.
\* an adapter that books the call before it sends the request
RaisedAfterRecording(req) ==
  [kind |-> "raise", data |-> <<>>, interval |-> "", rec |-> TRUE, req |-> req]

Raised(req) == [kind |-> "raise", data |-> <<>>, interval |-> "", rec |-> FALSE, req |-> req]
RetNone(rec, req) == [kind |-> "none", data |-> <<>>, interval |-> "", rec |-> rec, req |-> req]
RetData(i, bars, req) == [kind |-> "data", data |-> bars, interval |-> i, rec |-> TRUE, req |-> req]

\* reversed(...)
Reverse(s) == [i \in 1..Len(s) |-> s[Len(s) + 1 - i]]

\* hist.tail(100) / [-100:]
LastN(s, n) == IF Len(s) <= n THEN s ELSE SubSeq(s, Len(s) - n + 1, Len(s))

\* sorted(time_series.keys()): a stable sort.  Place(s)[i] is the position of
\* s[i] in the sorted list
Place(s) ==
  [i \in 1..Len(s) |->
     Cardinality({j \in 1..Len(s) : s[j].t < s[i].t \/ (s[j].t = s[i].t /\ j <= i)})]

SortByTime(s) ==
  LET at == Place(s)
  IN [k \in 1..Len(s) |-> s[CHOOSE i \in 1..Len(s) : at[i] = k]]

HasQ(recs, qs) == \E i \in 1..Len(recs) : recs[i].q \in qs
OnlyOk(recs) == SelectSeq(recs, LAMBDA r : r.q = "ok")

\* _get_finnhub_data
get_finnhub_data(keys, interval, resp) ==
  IF "finnhub" \notin DOMAIN keys THEN RetNone(FALSE, FALSE)
  ELSE IF interval \notin ValidIntervals THEN RetNone(FALSE, FALSE)
  ELSE IF resp.kind = "error" THEN Raised(TRUE)
  ELSE IF resp.kind = "reject" THEN RetNone(FALSE, TRUE)
  ELSE IF HasQ(resp.recs, {"missing"}) THEN Raised(TRUE)
  ELSE RetData(interval, resp.recs, TRUE)

\* _get_twelve_data
get_twelve_data(keys, interval, resp) ==
  IF "twelve_data" \notin DOMAIN keys THEN RetNone(FALSE, FALSE)
  ELSE IF interval \notin ValidIntervals THEN RetNone(FALSE, FALSE)
  ELSE IF resp.kind = "error" THEN Raised(TRUE)
  ELSE IF resp.kind = "reject" THEN RetNone(FALSE, TRUE)
  ELSE IF HasQ(resp.recs, {"null"}) THEN Raised(TRUE)
  ELSE LET bars == OnlyOk(Reverse(resp.recs))
       IN IF bars # <<>> THEN RetData(interval, bars, TRUE) ELSE RetNone(TRUE, TRUE)

\* _get_alpha_vantage_data
get_alpha_vantage_data(keys, interval, resp) ==
  IF "alpha_vantage" \notin DOMAIN keys THEN RetNone(FALSE, FALSE)
  ELSE IF interval \notin ValidIntervals THEN RetNone(FALSE, FALSE)
  ELSE IF resp.kind = "error" THEN Raised(TRUE)
  ELSE IF resp.kind = "reject" THEN RetNone(FALSE, TRUE)
  ELSE LET dates == LastN(SortByTime(resp.recs), Cap)
       IN IF HasQ(dates, {"null"}) THEN Raised(TRUE)
          ELSE LET bars == OnlyOk(dates)
               IN IF bars # <<>> THEN RetData(interval, bars, TRUE) ELSE RetNone(TRUE, TRUE)

\* an adapter that falls back to daily bars for an interval it does not know
get_yfinance_data_defaulting(keys, interval, resp) ==
  IF resp.kind \in {"error", "reject"} THEN Raised(TRUE)
  ELSE IF resp.recs = <<>> THEN RetNone(FALSE, TRUE)
  ELSE LET hist == LastN(resp.recs, Cap)
       IN IF HasQ(hist, {"missing", "nonnum", "null"}) THEN Raised(TRUE)
          ELSE RetData(IF interval \in ValidIntervals THEN interval ELSE "1D", hist, TRUE)

\* _get_yfinance_data
get_yfinance_data(keys, interval, resp) ==
  IF interval \notin ValidIntervals THEN Raised(FALSE)
  ELSE IF resp.kind \in {"error", "reject"} THEN Raised(TRUE)
  ELSE IF resp.recs = <<>> THEN RetNone(FALSE, TRUE)
  ELSE LET hist == LastN(resp.recs, Cap)
       IN IF HasQ(hist, {"missing", "nonnum", "null"}) THEN Raised(TRUE)
          ELSE RetData(interval, hist, TRUE)

\* the if/elif dispatch of get_market_data
Adapter(p, keys, interval, resp) ==
  IF p = "yfinance" THEN get_yfinance_data(keys, interval, resp)
  ELSE IF p = "finnhub" THEN get_finnhub_data(keys, interval, resp)
  ELSE IF p = "twelve_data" THEN get_twelve_data(keys, interval, resp)
  ELSE get_alpha_vantage_data(keys, interval, resp)

(***************************************************************************)
(* get_market_data                                                         *)
(***************************************************************************)
\* the state of one invocation while it walks apis_to_try
Start(lc) ==
  [calls |-> lc, log |-> <<>>, sent |-> <<>>, recorded |-> <<>>, ret |-> None, done |-> FALSE]

\* the invocation re-raises the adapter's exception
Propagate(s, p) ==
  [s EXCEPT !.log = Append(@, [api |-> p, ev |-> "error"]),
            !.ret = [kind |-> "raise"], !.done = TRUE]

\* `except Exception as e:` logs the error and continues with the next provider
Absorb(s, p) == [s EXCEPT !.log = Append(@, [api |-> p, ev |-> "error"])]

\* an exhausted invocation that answers with a last-known response
ResultLastKnown(s) ==
  IF s.done THEN s.ret
  ELSE [kind |-> "data", interval |-> "1D", data |-> <<[t |-> 1, q |-> "ok"]>>]

\* the ok records of all the answers of the invocation, in the order received
RECURSIVE BarsSoFar(_)
BarsSoFar(snt) ==
  IF snt = <<>> THEN <<>>
  ELSE BarsSoFar(SubSeq(snt, 1, Len(snt) - 1)) \o OnlyOk(snt[Len(snt)].resp.recs)

\* an invocation that keeps the bars its failed adapters had built
ResultMerged(s) ==
  IF s.done THEN [s.ret EXCEPT !.data = BarsSoFar(s.sent)] ELSE None

\* `return data` inside the loop, `return None` after it
Result(s) == IF s.done THEN s.ret ELSE None

Row(p, ev) == [api |-> p, ev |-> ev]

\* the loop without the credential test
NoKeyNeverSkips(p, keys) == FALSE

\* `api_name != 'yfinance' and api_name not in self.api_keys`
NoKey(p, keys) == p # "yfinance" /\ p \notin DOMAIN keys

\* the loop body reaches the try block for p
Reaches(s, p, keys, t) ==
  ~s.done /\ ~NoKey(p, keys) /\ CheckResult(s.calls, p, t)

\* the success test without the length test
IsSuccessAnyDict(o) == o.kind = "data"

\* `if data and data.get('data') and len(data['data']) > 0`
IsSuccess(o) == o.kind = "data" /\ o.data # <<>>

\* what the loop body does once the adapter has come back with o
AfterAdapter(s, p, o, resp, t) ==
  LET c == CheckCalls(s.calls, p, t)
      c2 == IF o.rec THEN RecordCall(c, p, t) ELSE c
      snt == IF o.req THEN Append(s.sent, [api |-> p, resp |-> resp]) ELSE s.sent
      rcd == IF o.rec THEN Append(s.recorded, p) ELSE s.recorded
      tried == Append(s.log, Row(p, "try"))
  IN IF o.kind = "raise"
       THEN Absorb([s EXCEPT !.calls = c2, !.sent = snt, !.recorded = rcd,
                             !.log = tried], p)
     ELSE IF IsSuccess(o)
       THEN [s EXCEPT !.calls = c2, !.sent = snt, !.recorded = rcd,
                      !.log = Append(tried, Row(p, "ok")),
                      !.ret = [kind |-> "data", interval |-> o.interval, data |-> o.data],
                      !.done = TRUE]
     ELSE [s EXCEPT !.calls = c2, !.sent = snt, !.recorded = rcd,
                    !.log = Append(tried, Row(p, "empty"))]

\* one pass of the for loop, for provider p, whose request (if one is sent)
\* is answered with resp
LoopBody(s, p, keys, interval, resp, t) ==
  IF s.done THEN s
  ELSE IF NoKey(p, keys) THEN [s EXCEPT !.log = Append(@, Row(p, "nokey"))]
  ELSE IF ~CheckResult(s.calls, p, t)
    THEN [s EXCEPT !.calls = CheckCalls(s.calls, p, t), !.log = Append(@, Row(p, "ratelimit"))]
  ELSE AfterAdapter(s, p, Adapter(p, keys, interval, resp), resp, t)

\* the answers the environment can give to provider p in this pass
Answers(s, p, keys, interval, t) ==
  IF Reaches(s, p, keys, t) /\ Adapter(p, keys, interval, ErrorResp).req
  THEN Responses ELSE {NoRequest}

\* rows of the table api_keys: INSERT gives is_active its default, 1
KeyRow(k) == [api_key |-> k, is_active |-> TRUE]
\* a table that holds keys, all of them active
ActiveRows(keys) == [p \in DOMAIN keys |-> KeyRow(keys[p])]

Init ==
  /\ now = 0
  /\ tz = 0
  /\ db = InitialDb
  /\ threads = <<>>
  /\ granted = {}
  /\ last_calls = [p \in Apis |-> <<>>]
  /\ api_keys \in UNION {[D -> Secrets] : D \in SUBSET (Apis \ {"yfinance"})}
  /\ stored_keys = ActiveRows(api_keys)
  /\ op = "idle"
  /\ arg = ""
  /\ ret = None
  /\ log = <<>>
  /\ sent = <<>>
  /\ recorded = <<>>
  /\ denied = {}

\* the clock moves on
Tick ==
  /\ op = "idle"
  /\ \E d \in {Window \div 2, Window} :
       /\ now + d <= MaxTime
       /\ now' = now + d
  /\ UNCHANGED <<last_calls, api_keys, stored_keys, tz, db, threads, granted, op, arg, ret, log, sent, recorded, denied>>

GetMarketData ==
  /\ op = "idle"
  /\ \E interval \in IntervalArgs :
    LET s0 == Start(last_calls) IN
    \E r1 \in Answers(s0, apis_to_try[1], api_keys, interval, now) :
    LET s1 == LoopBody(s0, apis_to_try[1], api_keys, interval, r1, now) IN
    \E r2 \in Answers(s1, apis_to_try[2], api_keys, interval, now) :
    LET s2 == LoopBody(s1, apis_to_try[2], api_keys, interval, r2, now) IN
    \E r3 \in Answers(s2, apis_to_try[3], api_keys, interval, now) :
    LET s3 == LoopBody(s2, apis_to_try[3], api_keys, interval, r3, now) IN
    \E r4 \in Answers(s3, apis_to_try[4], api_keys, interval, now) :
    LET s4 == LoopBody(s3, apis_to_try[4], api_keys, interval, r4, now) IN
      /\ last_calls' = s4.calls
      /\ op' = "get_market_data"
      /\ arg' = interval
      /\ ret' = Result(s4)
      /\ log' = s4.log
      /\ sent' = s4.sent
      /\ recorded' = s4.recorded
      /\ UNCHANGED <<now, api_keys, stored_keys, tz, db, threads, granted, denied>>

\* the caller takes the result; the next request can be served
Return ==
  /\ op # "idle"
  /\ op' = "idle"
  /\ arg' = ""
  /\ ret' = None
  /\ log' = <<>>
  /\ sent' = <<>>
  /\ recorded' = <<>>
  /\ granted' = IF op = "get_market_data" THEN {} ELSE granted
  /\ UNCHANGED <<now, last_calls, api_keys, stored_keys, tz, db, threads, denied>>

Next == Tick \/ GetMarketData \/ Return

(***************************************************************************)
(* The rate limiter on its own: _check_rate_limit and _record_api_call     *)
(* called directly, on any ledger content.                                 *)
(***************************************************************************)
Bool(b) == [kind |-> "bool", value |-> b]

RECURSIVE Entries(_, _)
Entries(lc, ps) ==
  IF ps = {} THEN 0
  ELSE LET p == CHOOSE q \in ps : TRUE IN Len(lc[p]) + Entries(lc, ps \ {p})

InitLimiter ==
  /\ now = 0
  /\ tz = 0
  /\ db = InitialDb
  /\ threads = <<>>
  /\ granted = {}
  /\ last_calls = [p \in Apis |-> <<>>]
  /\ api_keys = <<>>
  /\ stored_keys = <<>>
  /\ op = "idle"
  /\ arg = ""
  /\ ret = None
  /\ log = <<>>
  /\ sent = <<>>
  /\ recorded = <<>>
  /\ denied = {}

CheckRateLimit(p) ==
  /\ op = "idle"
  /\ last_calls' = CheckCalls(last_calls, p, now)
  /\ op' = "check"
  /\ arg' = p
  /\ ret' = Bool(CheckResult(last_calls, p, now))
  /\ denied' = IF CheckResult(last_calls, p, now) THEN denied ELSE denied \cup {p}
  /\ UNCHANGED <<now, api_keys, stored_keys, tz, db, threads, granted, log, sent, recorded>>

RecordApiCall(p) ==
  /\ op = "idle"
  /\ Entries(last_calls, Apis) < MaxLedger
  /\ last_calls' = RecordCall(last_calls, p, now)
  /\ op' = "record"
  /\ arg' = p
  /\ ret' = None
  /\ recorded' = <<p>>
  /\ denied' = denied \ {p}
  /\ UNCHANGED <<now, api_keys, stored_keys, tz, db, threads, granted, log, sent>>

NextLimiter ==
  \/ Tick
  \/ \E p \in Apis : CheckRateLimit(p)
  \/ \E p \in Apis : RecordApiCall(p)
  \/ Return

SpecLimiter == InitLimiter /\ [][NextLimiter]_vars

Spec == Init /\ [][Next]_vars

(***************************************************************************)
(* The adapters on their own.  get_market_data hands the dict of the       *)
(* adapter that served it to its caller as it is, so what a response can   *)
(* hold is what an adapter can build from a payload.  An adapter runs once *)
(* the limiter has let its provider through.                               *)
(***************************************************************************)
\* most records of the payloads that are enumerated in full
MaxRecs == 2

RecordKinds == {"ok", "missing", "nonnum", "null"}
PayloadRecs == {Rec(t, q) : t \in {1, 2}, q \in RecordKinds}

\* every payload of at most MaxRecs records, in every order
ShortPayloads == UNION {[1..n -> PayloadRecs] : n \in 0..MaxRecs}

\* a payload with one well-formed record more than a response may hold,
\* oldest first
LongPayload == [i \in 1..(Cap + 1) |-> Rec(i, "ok")]

AdapterResponses ==
  {ErrorResp, RejectResp}
    \cup {DataResp(r) : r \in ShortPayloads \cup {LongPayload, Reverse(LongPayload)}}

InitAdapters ==
  /\ now = 0
  /\ tz = 0
  /\ db = InitialDb
  /\ threads = <<>>
  /\ granted = {}
  /\ last_calls = [p \in Apis |-> <<>>]
  /\ api_keys \in UNION {[D -> Secrets] : D \in {{}, Apis \ {"yfinance"}}}
  /\ stored_keys = ActiveRows(api_keys)
  /\ op = "idle"
  /\ arg = ""
  /\ ret = None
  /\ log = <<>>
  /\ sent = <<>>
  /\ recorded = <<>>
  /\ denied = {}

\* one call of the adapter of p, answered with resp
CallAdapter(p) ==
  /\ op = "idle"
  /\ CheckResult(last_calls, p, now)
  /\ \E interval \in IntervalArgs :
     \E resp \in AdapterResponses :
       LET o == Adapter(p, api_keys, interval, resp) IN
         /\ o.req \/ resp = ErrorResp
         /\ last_calls' = IF o.rec THEN RecordCall(last_calls, p, now) ELSE last_calls
         /\ op' = "adapter"
         /\ arg' = p
         /\ ret' = o
         /\ sent' = IF o.req THEN <<[api |-> p, resp |-> resp]>> ELSE <<>>
         /\ recorded' = IF o.rec THEN <<p>> ELSE <<>>
         /\ UNCHANGED <<now, api_keys, stored_keys, tz, db, threads, granted, log, denied>>

NextAdapters ==
  \/ \E p \in {apis_to_try[i] : i \in 1..Len(apis_to_try)} : CallAdapter(p)
  \/ Return

SpecAdapters == InitAdapters /\ [][NextAdapters]_vars

(***************************************************************************)
(* get_api_status, on any ledger content                                   *)
(***************************************************************************)
\* the providers whose credential the settings page sets in the model
KeyProviders == {"finnhub", "newsapi"}

Max(a, b) == IF a >= b THEN a ELSE b

\* a status that counts every timestamp of the ledger, stale ones too
RemainingCallsAnyAge(lc, p, t) == Max(0, limits[p] - Len(Ledger(lc, p)))

\* remaining_calls: max(0, limit - recent_calls); a provider without a ledger
\* entry has the empty list and gets its whole limit
RemainingCalls(lc, p, t) ==
  Max(0, limits[p] - Len(SelectSeq(Ledger(lc, p), LAMBDA c : t - c < Window)))

\* the dict get_api_status returns
Status(lc, keys, t) ==
  [p \in Apis |->
     [has_key |-> p \in DOMAIN keys,
      remaining_calls |-> RemainingCalls(lc, p, t),
      limit |-> limits[p],
      status |-> IF p \in DOMAIN keys /\ RemainingCalls(lc, p, t) > 0
                 THEN "active" ELSE "inactive"]]

\* a status that prunes the ledgers it reads
StatusLedgerPruned(lc, t) == [p \in Apis |-> Prune(lc[p], t)]

\* the ledger as get_api_status leaves it: it only reads self.last_calls
StatusLedger(lc, t) == lc

InitStatus ==
  /\ now = 0
  /\ tz = 0
  /\ db = InitialDb
  /\ threads = <<>>
  /\ granted = {}
  /\ last_calls = [p \in Apis |-> <<>>]
  /\ api_keys \in UNION {[D -> Secrets] : D \in SUBSET KeyProviders}
  /\ stored_keys = ActiveRows(api_keys)
  /\ op = "idle"
  /\ arg = ""
  /\ ret = None
  /\ log = <<>>
  /\ sent = <<>>
  /\ recorded = <<>>
  /\ denied = {}

GetApiStatus ==
  /\ op = "idle"
  /\ last_calls' = StatusLedger(last_calls, now)
  /\ op' = "get_api_status"
  /\ ret' = Status(last_calls, api_keys, now)
  /\ UNCHANGED <<now, api_keys, stored_keys, tz, db, threads, granted, arg, log, sent, recorded, denied>>

NextStatus ==
  \/ Tick
  \/ \E p \in Apis : RecordApiCall(p)
  \/ GetApiStatus
  \/ Return

SpecStatus == InitStatus /\ [][NextStatus]_vars

(***************************************************************************)
(* update_api_keys and the table api_keys                                  *)
(***************************************************************************)
\* the values the settings page posts for a provider: a secret, another
\* secret, the empty string, a string of white space
KeyValues == {"k1", "k2", "", " "}

\* str.strip()
Strip(v) == IF v = " " THEN "" ELSE v

\* a filter that lets white space through
KeptIfNonEmpty(v) == v # ""

\* `if v and v.strip()`
Kept(v) == v # "" /\ Strip(v) # ""

\* clean_keys
CleanKeys(keys) == [p \in {q \in DOMAIN keys : Kept(keys[q])} |-> keys[p]]

\* an update that replaces the store by the new credentials
MergeReplacing(keys, clean) == clean

\* self.api_keys.update(clean_keys)
Merge(keys, clean) ==
  [p \in DOMAIN keys \cup DOMAIN clean |->
     IF p \in DOMAIN clean THEN clean[p] ELSE keys[p]]

\* a save that writes nothing
SaveNothing(tbl, clean) == tbl

\* save_api_keys: INSERT OR REPLACE of one row per provider
save_api_keys(tbl, clean) ==
  [p \in DOMAIN tbl \cup DOMAIN clean |->
     IF p \in DOMAIN clean THEN KeyRow(clean[p]) ELSE tbl[p]]

\* get_api_keys: SELECT provider, api_key ... WHERE is_active = 1
get_api_keys(tbl) ==
  [p \in {q \in DOMAIN tbl : tbl[q].is_active} |-> tbl[p].api_key]

\* the tables the process can start on: per provider no row, an active row
\* or a row that was switched off
Tables ==
  UNION {[D -> {KeyRow(k) : k \in Secrets}
                 \cup {[api_key |-> k, is_active |-> FALSE] : k \in Secrets}] :
         D \in SUBSET KeyProviders}

InitKeys ==
  /\ now = 0
  /\ tz = 0
  /\ db = InitialDb
  /\ threads = <<>>
  /\ granted = {}
  /\ last_calls = [p \in Apis |-> <<>>]
  /\ stored_keys \in Tables
  /\ api_keys = get_api_keys(stored_keys)
  /\ op = "idle"
  /\ arg = ""
  /\ ret = None
  /\ log = <<>>
  /\ sent = <<>>
  /\ recorded = <<>>
  /\ denied = {}

\* update_api_keys(keys).  fails tells where the database raises: nowhere,
\* in save_api_keys (the transaction is rolled back) or in add_log.
\* granted remembers the providers that got their first credential since the
\* last get_market_data returned.
UpdateWith(ps) ==
  /\ op = "idle"
  /\ \E keys \in UNION {[D -> KeyValues] : D \in SUBSET ps} :
     \E fails \in {"nowhere", "save", "log"} :
       LET clean == CleanKeys(keys) IN
         /\ api_keys' = Merge(api_keys, clean)
         /\ stored_keys' = IF fails = "save" THEN stored_keys
                           ELSE save_api_keys(stored_keys, clean)
         /\ granted' = granted \cup (DOMAIN clean \ DOMAIN api_keys)
         /\ op' = "update_api_keys"
         /\ arg' = keys
         /\ ret' = IF fails = "nowhere" THEN None ELSE [kind |-> "raise"]
         /\ UNCHANGED <<tz, db, threads, now, last_calls, log, sent, recorded, denied>>

UpdateApiKeys == UpdateWith(KeyProviders)

NextKeys ==
  \/ UpdateApiKeys
  \/ \E p \in Apis : RecordApiCall(p)
  \/ Return

SpecKeys == InitKeys /\ [][NextKeys]_vars

(***************************************************************************)
(* get_news                                                                *)
(***************************************************************************)
\* One article of a provider payload: its URL and the instant it was
\* published at.
Item(u, ts) == [url |-> u, ts |-> ts]

\* The payloads a news provider answers with in the model: none, one or two
\* articles, the same URL twice, and three articles (more than the page
\* size that any of the limits below asks for).
NewsPayloads ==
  { <<>>, <<Item("u1", 1)>>, <<Item("u1", 2)>>, <<Item("u2", 2)>>,
    <<Item("u1", 1), Item("u2", 2)>>, <<Item("u2", 2), Item("u1", 1)>>,
    <<Item("u1", 2), Item("u1", 1)>>,
    <<Item("u1", 1), Item("u2", 2), Item("u3", 2)>> }

NewsResponses == {ErrorResp} \cup {DataResp(r) : r \in NewsPayloads}

\* the limit arguments the model passes
NewsLimits == {1, 2, 4}

\* the offsets of local time from UTC the machine can run with, in the unit
\* of the publication instants
UtcOffsets == {0, 2}

\* published_at is a string.  NewsAPI's publishedAt is passed on as it comes:
\* the UTC reading of the instant, with the suffix Z
UtcStamp(ts) == [clock |-> ts, z |-> TRUE]
\* datetime.fromtimestamp(ts).isoformat(): the local reading, no suffix
LocalStamp(ts, off) == [clock |-> ts + off, z |-> FALSE]

\* a > b for two such strings: by the reading, and of two equal readings the
\* one that goes on with Z is the greater
StampGreater(a, b) ==
  a.clock > b.clock \/ (a.clock = b.clock /\ a.z /\ ~b.z)

Article(u, stamp, src) == [url |-> u, published_at |-> stamp, source |-> src]

Min(a, b) == IF a <= b THEN a ELSE b
\* s[:n]
Take(s, n) == SubSeq(s, 1, Min(n, Len(s)))

\* _get_newsapi_news: every article of the answer; [] after an exception
get_newsapi_news(resp, lim, off) ==
  IF resp.kind = "error" THEN [news |-> <<>>, rec |-> FALSE]
  ELSE [news |-> [i \in 1..Len(resp.recs) |->
                    Article(resp.recs[i].url, UtcStamp(resp.recs[i].ts), "NewsAPI")],
        rec |-> TRUE]

\* _get_finnhub_news: the first lim articles of the answer; [] after an
\* exception
get_finnhub_news(resp, lim, off) ==
  IF resp.kind = "error" THEN [news |-> <<>>, rec |-> FALSE]
  ELSE [news |-> [i \in 1..Len(Take(resp.recs, lim)) |->
                    Article(resp.recs[i].url, LocalStamp(resp.recs[i].ts, off), "Finnhub")],
        rec |-> TRUE]

NewsAdapter(p, resp, lim, off) ==
  IF p = "newsapi" THEN get_newsapi_news(resp, lim, off)
  ELSE get_finnhub_news(resp, lim, off)

\* a lookup that keeps only what the last provider gave
ExtendReplacing(all, news) == IF news # <<>> THEN news ELSE all

\* all_news.extend(news)
Extend(all, news) == all \o news

\* the subsequence of s at the positions in idx
Pick(s, idx) ==
  [k \in 1..Cardinality(idx) |->
     s[CHOOSE i \in idx : Cardinality({j \in idx : j <= i}) = k]]

\* a loop that keeps every article
DedupKeepsAll(s) == s

\* the seen_urls loop: the first article of every URL
Dedup(s) ==
  Pick(s, {i \in 1..Len(s) : \A j \in 1..(i - 1) : s[j].url # s[i].url})

\* unique_news.sort(key=published_at, reverse=True): stable, greatest first
SortByStampDesc(s) ==
  LET at == [i \in 1..Len(s) |->
               Cardinality({j \in 1..Len(s) :
                  \/ StampGreater(s[j].published_at, s[i].published_at)
                  \/ (s[j].published_at = s[i].published_at /\ j <= i)})]
  IN [k \in 1..Len(s) |-> s[CHOOSE i \in 1..Len(s) : at[i] = k]]

\* the state of one get_news invocation
StartNews(lc) == [calls |-> lc, all |-> <<>>, sent |-> <<>>, recorded |-> <<>>]

\* `'p' in self.api_keys and self._check_rate_limit('p')`
Asks(s, p, keys, t) == p \in DOMAIN keys /\ CheckResult(s.calls, p, t)

\* one `if` block of get_news, for provider p, whose request (if one is
\* sent) is answered with resp
NewsBlock(s, p, keys, resp, lim, t, off) ==
  IF p \notin DOMAIN keys THEN s
  ELSE IF ~CheckResult(s.calls, p, t) THEN [s EXCEPT !.calls = CheckCalls(s.calls, p, t)]
  ELSE LET o == NewsAdapter(p, resp, lim, off)
           c == CheckCalls(s.calls, p, t)
       IN [calls |-> IF o.rec THEN RecordCall(c, p, t) ELSE c,
           all |-> Extend(s.all, o.news),
           sent |-> Append(s.sent, [api |-> p, resp |-> resp]),
           recorded |-> IF o.rec THEN Append(s.recorded, p) ELSE s.recorded]

NewsAnswers(s, p, keys, t) == IF Asks(s, p, keys, t) THEN NewsResponses ELSE {NoRequest}

InitNews ==
  /\ now = 0
  /\ tz \in UtcOffsets
  /\ db = InitialDb
  /\ threads = <<>>
  /\ granted = {}
  /\ last_calls = [p \in Apis |-> <<>>]
  /\ api_keys \in UNION {[D -> Secrets] : D \in SUBSET KeyProviders}
  /\ stored_keys = ActiveRows(api_keys)
  /\ op = "idle"
  /\ arg = ""
  /\ ret = None
  /\ log = <<>>
  /\ sent = <<>>
  /\ recorded = <<>>
  /\ denied = {}

GetNews ==
  /\ op = "idle"
  /\ \E limit \in NewsLimits :
    LET s0 == StartNews(last_calls) IN
    \E r1 \in NewsAnswers(s0, "newsapi", api_keys, now) :
    LET s1 == NewsBlock(s0, "newsapi", api_keys, r1, limit \div 2, now, tz) IN
    \E r2 \in NewsAnswers(s1, "finnhub", api_keys, now) :
    LET s2 == NewsBlock(s1, "finnhub", api_keys, r2, limit \div 2, now, tz) IN
      /\ last_calls' = s2.calls
      /\ op' = "get_news"
      /\ arg' = limit
      /\ ret' = Take(SortByStampDesc(Dedup(s2.all)), limit)
      /\ sent' = s2.sent
      /\ recorded' = s2.recorded
      /\ UNCHANGED <<now, api_keys, stored_keys, tz, db, threads, granted, log, denied>>

NextNews == Tick \/ GetNews \/ Return

SpecNews == InitNews /\ [][NextNews]_vars

(***************************************************************************)
(* get_current_price                                                       *)
(***************************************************************************)
\* What a quote field (currentPrice, 'c', 'price', the last Close) holds:
\* "none" for a value that `if price:` rejects (absent, null, 0), "nonnum"
\* for a value that passes the test and that float() rejects, or a number.
Quotes == {"none", "nonnum", "10", "20"}
Truthy(q) == q # "none"
Numeric(q) == q \in {"10", "20"}

\* what get_current_price returns for a quote it has converted
Price(q) == [kind |-> "price", value |-> q]

\* The answers of yfinance: an exception, or ticker.info with currentPrice
\* `price` and a history whose last Close is `close` ("none": hist.empty).
YfError == [kind |-> "error", price |-> "none", close |-> "none"]
YfAnswers ==
  {YfError} \cup
  {[kind |-> "data", price |-> q, close |-> c] :
     q \in {"nonnum", "10"}, c \in {"none"}} \cup
  {[kind |-> "data", price |-> "none", close |-> c] : c \in {"none", "20"}}

\* The answers of the quote endpoints of Finnhub and Twelve Data.
QuoteError == [kind |-> "error", price |-> "none", close |-> "none"]
QuoteAnswers ==
  {QuoteError} \cup {[kind |-> "data", price |-> q, close |-> "none"] : q \in Quotes}
NoQuote == [kind |-> "norequest", price |-> "none", close |-> "none"]

\* the state of one get_current_price invocation
StartPrice(lc) ==
  [calls |-> lc, log |-> <<>>, sent |-> <<>>, recorded |-> <<>>, ret |-> None, done |-> FALSE]

\* the yfinance block (lines 370-387)
YfBlock(s, ans) ==
  LET snt == Append(s.sent, [api |-> "yfinance", resp |-> ans])
      failed == [s EXCEPT !.sent = snt, !.log = Append(@, Row("yfinance", "error"))]
  IN IF ans.kind = "error" THEN failed
     ELSE IF Truthy(ans.price)
       THEN IF Numeric(ans.price)
              THEN [s EXCEPT !.sent = snt, !.ret = Price(ans.price), !.done = TRUE]
            ELSE failed
     ELSE IF Truthy(ans.close)
       THEN IF Numeric(ans.close)
              THEN [s EXCEPT !.sent = snt, !.ret = Price(ans.close), !.done = TRUE]
            ELSE failed
     ELSE [s EXCEPT !.sent = snt]

\* the Finnhub block (lines 390-409) and the Twelve Data block (412-431):
\* `if price:` then _record_api_call(p), then `return float(price)`
WebBlock(s, p, keys, ans, t) ==
  IF s.done \/ p \notin DOMAIN keys THEN s
  ELSE IF ~CheckResult(s.calls, p, t) THEN [s EXCEPT !.calls = CheckCalls(s.calls, p, t)]
  ELSE LET c == CheckCalls(s.calls, p, t)
           snt == Append(s.sent, [api |-> p, resp |-> ans])
       IN IF ans.kind = "error"
            THEN [s EXCEPT !.calls = c, !.sent = snt, !.log = Append(@, Row(p, "error"))]
          ELSE IF ~Truthy(ans.price) THEN [s EXCEPT !.calls = c, !.sent = snt]
          ELSE IF Numeric(ans.price)
            THEN [s EXCEPT !.calls = RecordCall(c, p, t), !.sent = snt,
                           !.recorded = Append(@, p),
                           !.ret = Price(ans.price), !.done = TRUE]
          ELSE [s EXCEPT !.calls = RecordCall(c, p, t), !.sent = snt,
                         !.recorded = Append(@, p),
                         !.log = Append(@, Row(p, "error"))]

\* the answers the environment can give to web provider p in this invocation
WebAnswers(s, p, keys, t) ==
  IF ~s.done /\ p \in DOMAIN keys /\ CheckResult(s.calls, p, t)
  THEN QuoteAnswers ELSE {NoQuote}

\* the web providers the other way round
price_chain_twelve_data_first == <<"yfinance", "twelve_data", "finnhub">>

\* the order of the blocks of get_current_price
price_chain == <<"yfinance", "finnhub", "twelve_data">>

InitPrice ==
  /\ now = 0
  /\ tz = 0
  /\ db = InitialDb
  /\ threads = <<>>
  /\ granted = {}
  /\ last_calls = [p \in Apis |-> <<>>]
  /\ api_keys \in UNION {[D -> Secrets] : D \in SUBSET {"finnhub", "twelve_data"}}
  /\ stored_keys = ActiveRows(api_keys)
  /\ op = "idle"
  /\ arg = ""
  /\ ret = None
  /\ log = <<>>
  /\ sent = <<>>
  /\ recorded = <<>>
  /\ denied = {}

GetCurrentPrice ==
  /\ op = "idle"
  /\ \E a1 \in YfAnswers :
     LET s1 == YfBlock(StartPrice(last_calls), a1) IN
     \E a2 \in WebAnswers(s1, price_chain[2], api_keys, now) :
     LET s2 == WebBlock(s1, price_chain[2], api_keys, a2, now) IN
     \E a3 \in WebAnswers(s2, price_chain[3], api_keys, now) :
     LET s3 == WebBlock(s2, price_chain[3], api_keys, a3, now) IN
       /\ last_calls' = s3.calls
       /\ op' = "get_current_price"
       /\ arg' = "AAPL"
       /\ ret' = s3.ret
       /\ log' = s3.log
       /\ sent' = s3.sent
       /\ recorded' = s3.recorded
       /\ UNCHANGED <<now, api_keys, stored_keys, tz, db, threads, granted, denied>>

NextPrice == Tick \/ GetCurrentPrice \/ Return

SpecPrice == InitPrice /\ [][NextPrice]_vars

(***************************************************************************)
(* Two request threads on the one APIManager (app.run(threaded=True)).     *)
(* A thread that needs provider p runs _check_rate_limit(p) and, when it   *)
(* passes and the request has succeeded, _record_api_call(p).  Nothing     *)
(* guards self.last_calls: the steps below are the points at which the     *)
(* interpreter can switch threads.  In this specification `recorded` keeps *)
(* every call of _record_api_call, with its timestamp.                     *)
(***************************************************************************)
ThreadIds == {1, 2}
ThreadApis == {"finnhub", "twelve_data"}

Idle == [pc |-> "idle", api |-> "", tmp |-> <<>>]
At(pc, p, tmp) == [pc |-> pc, api |-> p, tmp |-> tmp]

InitThreads ==
  /\ now = 0
  /\ tz = 0
  /\ db = InitialDb
  /\ threads = [i \in ThreadIds |-> Idle]
  /\ granted = {}
  /\ last_calls = [p \in Apis |-> <<>>]
  /\ api_keys = [p \in ThreadApis |-> "k1"]
  /\ stored_keys = ActiveRows(api_keys)
  /\ op = "idle"
  /\ arg = ""
  /\ ret = None
  /\ log = <<>>
  /\ sent = <<>>
  /\ recorded = <<>>
  /\ denied = {}

\* a request arrives and its thread enters _check_rate_limit(p)
Enter(i, p) ==
  /\ threads[i].pc = "idle"
  /\ Len(recorded) < MaxLedger
  /\ threads' = [threads EXCEPT ![i] = At("filter", p, <<>>)]
  /\ UNCHANGED <<now, last_calls, api_keys, stored_keys, tz, db, granted,
                 op, arg, ret, log, sent, recorded, denied>>

\* the list comprehension builds the pruned list from the list it finds
Filter(i) ==
  /\ threads[i].pc = "filter"
  /\ threads' = [threads EXCEPT
                   ![i] = At("assign", threads[i].api,
                             Prune(Ledger(last_calls, threads[i].api), now))]
  /\ UNCHANGED <<now, last_calls, api_keys, stored_keys, tz, db, granted,
                 op, arg, ret, log, sent, recorded, denied>>

\* self.last_calls[api_name] = <the pruned list>
Assign(i) ==
  /\ threads[i].pc = "assign"
  /\ last_calls' = [last_calls EXCEPT ![threads[i].api] = threads[i].tmp]
  /\ threads' = [threads EXCEPT ![i] = At("compare", threads[i].api, <<>>)]
  /\ UNCHANGED <<now, api_keys, stored_keys, tz, db, granted,
                 op, arg, ret, log, sent, recorded, denied>>

\* `if len(self.last_calls[api_name]) >= self.limits[api_name]: return False`
Compare(i) ==
  /\ threads[i].pc = "compare"
  /\ threads' = [threads EXCEPT
                   ![i] = IF Len(Ledger(last_calls, threads[i].api)) >= limits[threads[i].api]
                          THEN Idle ELSE At("request", threads[i].api, <<>>)]
  /\ UNCHANGED <<now, last_calls, api_keys, stored_keys, tz, db, granted,
                 op, arg, ret, log, sent, recorded, denied>>

\* the request has succeeded: _record_api_call(p) appends time.time()
Record(i) ==
  /\ threads[i].pc = "request"
  /\ last_calls' = RecordCall(last_calls, threads[i].api, now)
  /\ recorded' = Append(recorded, [api |-> threads[i].api, at |-> now])
  /\ threads' = [threads EXCEPT ![i] = Idle]
  /\ UNCHANGED <<now, api_keys, stored_keys, tz, db, granted,
                 op, arg, ret, log, sent, denied>>

NextThreads ==
  \/ Tick
  \/ \E i \in ThreadIds, p \in ThreadApis : Enter(i, p)
  \/ \E i \in ThreadIds : Filter(i)
  \/ \E i \in ThreadIds : Assign(i)
  \/ \E i \in ThreadIds : Compare(i)
  \/ \E i \in ThreadIds : Record(i)

SpecThreads == InitThreads /\ [][NextThreads]_vars

(***************************************************************************)
(* The three fetching operations of one APIManager, called one after the   *)
(* other in any order on the same ledgers.                                 *)
(***************************************************************************)
InitFetch ==
  /\ now = 0
  /\ tz = 0
  /\ db = InitialDb
  /\ threads = <<>>
  /\ granted = {}
  /\ last_calls = [p \in Apis |-> <<>>]
  /\ api_keys \in UNION {[D -> Secrets] : D \in {KeyProviders, Apis \ {"yfinance", "newsapi"}}}
  /\ stored_keys = ActiveRows(api_keys)
  /\ op = "idle"
  /\ arg = ""
  /\ ret = None
  /\ log = <<>>
  /\ sent = <<>>
  /\ recorded = <<>>
  /\ denied = {}

NextFetch == Tick \/ GetMarketData \/ GetCurrentPrice \/ GetNews \/ Return

SpecFetch == InitFetch /\ [][NextFetch]_vars

(***************************************************************************)
(* Credentials entered at run time, and the get_market_data invocations    *)
(* that follow them.                                                       *)
(***************************************************************************)
GrantProviders == {"finnhub", "twelve_data"}

InitGrant ==
  /\ now = 0
  /\ tz = 0
  /\ db = InitialDb
  /\ threads = <<>>
  /\ granted = {}
  /\ last_calls = [p \in Apis |-> <<>>]
  /\ api_keys \in UNION {[D -> Secrets] : D \in SUBSET GrantProviders}
  /\ stored_keys = ActiveRows(api_keys)
  /\ op = "idle"
  /\ arg = ""
  /\ ret = None
  /\ log = <<>>
  /\ sent = <<>>
  /\ recorded = <<>>
  /\ denied = {}

UpdateGranting == UpdateWith(GrantProviders)

NextGrant == UpdateGranting \/ GetMarketData \/ Return

SpecGrant == InitGrant /\ [][NextGrant]_vars

(***************************************************************************)
(* Closing trades: DatabaseManager.close_trade and                         *)
(* PortfolioManager.close_trade, on the database file the process finds.   *)
(***************************************************************************)
MaxTrades == 2

\* float(current_price)
Float(q) == IF q = "10" THEN 10 ELSE 20

\* the length of a day, in the unit of now (scaled down from 86400 seconds)
DayLength == 60

\* the date of a time stamp
Day(t) == t \div DayLength

\* the fraction upside down: current_price / amount
RatioInverted(n, d) == [num |-> d, den |-> n]

\* quantity = amount / current_price, kept as a fraction
Ratio(n, d) == [num |-> n, den |-> d]

\* k * q for a fraction q; the amounts of the model make it a whole number
Times(k, q) == (k * q.num) \div q.den

\* rows of the table trades; the id of a row is its position (AUTOINCREMENT,
\* rows are never deleted).  exit_price is None until the trade is closed.
\* entry_day is the date of entry_time.
OpenTrade(side, amount, entry, day) ==
  [side |-> side, quantity |-> Ratio(amount, entry), entry_price |-> entry,
   entry_day |-> day, status |-> "OPEN", exit_price |-> None, pnl |-> 0]

\* the P&L close_trade computes
Pnl(tr, exit) ==
  IF tr.side = "BUY" THEN Times(exit - tr.entry_price, tr.quantity)
  ELSE Times(tr.entry_price - exit, tr.quantity)

\* the row as the UPDATE of close_trade writes it
ClosedTrade(tr, exit) ==
  [tr EXCEPT !.status = "CLOSED", !.exit_price = exit, !.pnl = Pnl(tr, exit)]

TradeRows ==
  {OpenTrade("BUY", 2, 10, 0), OpenTrade("SELL", 2, 20, 0),
   ClosedTrade(OpenTrade("BUY", 2, 10, 0), 20),
   ClosedTrade(OpenTrade("SELL", 2, 10, 0), 20)}

\* the trade tables of the files the process can start on
TradeTables == UNION {[1..n -> TradeRows] : n \in 0..MaxTrades}

\* the ids close_trade is called with: those of the rows and one beyond
TradeIds == 1..(MaxTrades + 1)

\* a WHERE clause that forgets the status
IsOpenAnyStatus(tbl, id) == id \in 1..Len(tbl)

\* `WHERE id = ? AND status = 'OPEN'` finds a row
IsOpen(tbl, id) == id \in 1..Len(tbl) /\ tbl[id].status = "OPEN"

\* get_open_trades / the generator of PortfolioManager.close_trade
FindOpen(tbl, id) == \E i \in 1..Len(tbl) : i = id /\ tbl[i].status = "OPEN"

\* get_portfolio_balance: its own connection reads the committed balance
get_portfolio_balance(d) == d.portfolio.balance

\* results of the database layer
DbRaise(e, d) == [kind |-> "raise", error |-> e, value |-> 0, db |-> d]
DbValue(v, d) == [kind |-> "value", error |-> "", value |-> v, db |-> d]

\* update_portfolio_balance: its own connection.  busy tells that another
\* connection holds an uncommitted write: the UPDATE then cannot get the
\* write lock and sqlite3 raises OperationalError (database is locked)
\* after the timeout; the connection rolls back.
update_portfolio_balance(d, new_balance, busy) ==
  IF busy THEN DbRaise("OperationalError", d)
  ELSE DbValue(None,
         [d EXCEPT !.portfolio.balance = new_balance,
                   !.portfolio_movements =
                      Append(@, [type |-> "TRADE",
                                 amount |-> new_balance - get_portfolio_balance(d),
                                 balance_before |-> get_portfolio_balance(d),
                                 balance_after |-> new_balance])])

\* DatabaseManager.close_trade.  The UPDATE of the trade is pending in the
\* connection of close_trade while update_portfolio_balance writes through
\* another one; an exception leaves the `with` block through rollback.
db_close_trade(d, id, exit) ==
  IF ~IsOpen(d.trades, id) THEN DbRaise("ValueError", d)
  ELSE LET pnl == Pnl(d.trades[id], exit)
           w == update_portfolio_balance(d, get_portfolio_balance(d) + pnl, TRUE)
       IN IF w.kind = "raise" THEN DbRaise(w.error, d)
          ELSE DbValue(pnl, [w.db EXCEPT !.trades[id] = ClosedTrade(@, exit)])

InitPortfolio ==
  /\ now = 0
  /\ tz = 0
  /\ db \in {[InitialDb EXCEPT !.trades = t] : t \in TradeTables}
  /\ threads = <<>>
  /\ granted = {}
  /\ last_calls = [p \in Apis |-> <<>>]
  /\ api_keys \in UNION {[D -> Secrets] : D \in {{}, {"finnhub"}}}
  /\ stored_keys = ActiveRows(api_keys)
  /\ op = "idle"
  /\ arg = ""
  /\ ret = None
  /\ log = <<>>
  /\ sent = <<>>
  /\ recorded = <<>>
  /\ denied = {}

\* db_manager.close_trade(trade_id, exit_price) called directly
DbCloseTrade ==
  /\ op = "idle"
  /\ \E id \in TradeIds : \E q \in {"10", "20"} :
       LET r == db_close_trade(db, id, Float(q)) IN
         /\ db' = r.db
         /\ op' = "db_close_trade"
         /\ arg' = [id |-> id, exit |-> Float(q)]
         /\ ret' = [kind |-> r.kind, error |-> r.error, value |-> r.value]
         /\ UNCHANGED <<now, last_calls, api_keys, stored_keys, tz, threads, granted, log, sent, recorded, denied>>

\* PortfolioManager.close_trade(trade_id): True, or False after the ERROR
\* row of the except block
CloseTrade ==
  /\ op = "idle"
  /\ \E id \in TradeIds :
       /\ op' = "close_trade"
       /\ arg' = id
       /\ IF ~FindOpen(db.trades, id)
            THEN /\ ret' = Bool(FALSE)
                 /\ log' = <<Row("portfolio", "error")>>
                 /\ UNCHANGED <<db, last_calls, sent, recorded>>
          ELSE \E a1 \in YfAnswers :
               LET s1 == YfBlock(StartPrice(last_calls), a1) IN
               \E a2 \in WebAnswers(s1, price_chain[2], api_keys, now) :
               LET s2 == WebBlock(s1, price_chain[2], api_keys, a2, now) IN
               \E a3 \in WebAnswers(s2, price_chain[3], api_keys, now) :
               LET s3 == WebBlock(s2, price_chain[3], api_keys, a3, now)
                   r == IF s3.ret = None THEN DbRaise("ValueError", db)
                        ELSE db_close_trade(db, id, Float(s3.ret.value))
               IN /\ last_calls' = s3.calls
                  /\ sent' = s3.sent
                  /\ recorded' = s3.recorded
                  /\ db' = r.db
                  /\ ret' = Bool(r.kind = "value")
                  /\ log' = s3.log \o <<Row("portfolio", IF r.kind = "value" THEN "info" ELSE "error")>>
  /\ UNCHANGED <<now, api_keys, stored_keys, tz, threads, granted, denied>>

NextPortfolio == DbCloseTrade \/ CloseTrade \/ Return

SpecPortfolio == InitPortfolio /\ [][NextPortfolio]_vars

(***************************************************************************)
(* The virtual portfolio: deposit, withdraw, execute_trade and close_trade *)
(* of PortfolioManager, called one after the other.                        *)
(***************************************************************************)
MaxMovements == 4

\* self.max_open_trades
max_open_trades == 1

\* self.max_trades_per_day (5 in the source, scaled down)
max_trades_per_day == 2

\* self.daily_profit_target, in percent
daily_profit_target == 5

\* the amounts deposit and withdraw are called with
Amounts == {-1, 0, 1, 5}

\* the amounts execute_trade is called with
TradeAmounts == {-2, 0, 2, 6}

\* _get_today_trades: the trades whose entry_time has today's date (the
\* 50 most recent rows are looked at; the tables here are shorter)
TodayTrades(tbl, t) == SelectSeq(tbl, LAMBDA tr : tr.entry_day = Day(t))

\* get_open_trades
OpenTrades(tbl) == SelectSeq(tbl, LAMBDA tr : tr.status = "OPEN")

\* sum(trade['pnl'] for the CLOSED trades of a list)
RECURSIVE ClosedPnl(_)
ClosedPnl(trs) ==
  IF trs = <<>> THEN 0
  ELSE (IF Head(trs).status = "CLOSED" THEN Head(trs).pnl ELSE 0) + ClosedPnl(Tail(trs))

\* `today_profit >= self.daily_profit_target`, with _get_today_profit:
\* 0 without trades today or when balance - total_pnl <= 0, else
\* total_pnl / (balance - total_pnl) * 100
ProfitTargetReached(d, t) ==
  LET today == TodayTrades(d.trades, t)
      total_pnl == ClosedPnl(today)
      initial_balance == get_portfolio_balance(d) - total_pnl
  IN /\ today # <<>>
     /\ initial_balance > 0
     /\ total_pnl * 100 >= daily_profit_target * initial_balance

\* the rules can_trade finds violated
Reasons(d, t) ==
  {r \in {"daily_limit"} : Len(TodayTrades(d.trades, t)) >= max_trades_per_day}
    \cup {r \in {"open_limit"} : Len(OpenTrades(d.trades)) >= max_open_trades}
    \cup {r \in {"profit_target"} : ProfitTargetReached(d, t)}

\* a can_trade that does not look at the open trades
can_trade_ignoring_open(d, t) == Reasons(d, t) \ {"open_limit"} = {}

\* can_trade()['can_trade']
can_trade(d, t) == Reasons(d, t) = {}

\* save_trade: INSERT INTO trades; status, exit_price and pnl get their defaults
save_trade(d, side, quantity, entry, t) ==
  [d EXCEPT !.trades =
     Append(@, [side |-> side, quantity |-> quantity, entry_price |-> entry,
                entry_day |-> Day(t), status |-> "OPEN", exit_price |-> None, pnl |-> 0])]

\* a deposit that forgets the movement
deposit_funds_unlogged(d, amount) ==
  [d EXCEPT !.portfolio.balance = @ + amount, !.portfolio.total_deposited = @ + amount]

\* deposit_funds
deposit_funds(d, amount) ==
  [d EXCEPT !.portfolio.balance = @ + amount,
            !.portfolio.total_deposited = @ + amount,
            !.portfolio_movements =
               Append(@, [type |-> "DEPOSIT", amount |-> amount,
                          balance_before |-> get_portfolio_balance(d),
                          balance_after |-> get_portfolio_balance(d) + amount])]

\* withdraw_funds, once its own balance test has passed
withdraw_funds(d, amount) ==
  [d EXCEPT !.portfolio.balance = @ - amount,
            !.portfolio.total_withdrawn = @ + amount,
            !.portfolio_movements =
               Append(@, [type |-> "WITHDRAWAL", amount |-> amount,
                          balance_before |-> get_portfolio_balance(d),
                          balance_after |-> get_portfolio_balance(d) - amount])]

\* a test that lets every amount through
ExceedsNever(amount, balance) == FALSE

\* `amount > current_balance`
Exceeds(amount, balance) == amount > balance

\* a test that lets zero through
NotPositiveBelowZero(amount) == amount < 0

\* `amount <= 0`
NotPositive(amount) == amount <= 0

\* the trade tables of the files PortfolioManager can start on: at most
\* max_open_trades rows are OPEN
TradingTables == {t \in TradeTables : Len(OpenTrades(t)) <= max_open_trades}

InitTrading ==
  /\ now = 0
  /\ tz = 0
  /\ db \in {[InitialDb EXCEPT !.trades = t] : t \in TradingTables}
  /\ threads = <<>>
  /\ granted = {}
  /\ last_calls = [p \in Apis |-> <<>>]
  /\ api_keys = <<>>
  /\ stored_keys = ActiveRows(api_keys)
  /\ op = "idle"
  /\ arg = ""
  /\ ret = None
  /\ log = <<>>
  /\ sent = <<>>
  /\ recorded = <<>>
  /\ denied = {}

\* PortfolioManager.deposit(amount)
Deposit ==
  /\ op = "idle"
  /\ Len(db.portfolio_movements) < MaxMovements
  /\ \E amount \in Amounts :
       /\ op' = "deposit"
       /\ arg' = amount
       /\ IF NotPositive(amount)
            THEN /\ ret' = Bool(FALSE)
                 /\ log' = <<Row("portfolio", "error")>>
                 /\ UNCHANGED db
          ELSE /\ ret' = Bool(TRUE)
               /\ log' = <<Row("portfolio", "info")>>
               /\ db' = deposit_funds(db, amount)
  /\ UNCHANGED <<now, last_calls, api_keys, stored_keys, tz, threads, granted, sent, recorded, denied>>

\* PortfolioManager.withdraw(amount)
Withdraw ==
  /\ op = "idle"
  /\ Len(db.portfolio_movements) < MaxMovements
  /\ \E amount \in Amounts :
       /\ op' = "withdraw"
       /\ arg' = amount
       /\ IF NotPositive(amount) \/ Exceeds(amount, get_portfolio_balance(db))
            THEN /\ ret' = Bool(FALSE)
                 /\ log' = <<Row("portfolio", "error")>>
                 /\ UNCHANGED db
          ELSE /\ ret' = Bool(TRUE)
               /\ log' = <<Row("portfolio", "info")>>
               /\ db' = withdraw_funds(db, amount)
  /\ UNCHANGED <<now, last_calls, api_keys, stored_keys, tz, threads, granted, sent, recorded, denied>>

\* PortfolioManager.execute_trade(symbol, side, amount): the trade id, or
\* None after the ERROR row of the except block
ExecuteTrade ==
  /\ op = "idle"
  /\ Len(db.portfolio_movements) < MaxMovements
  /\ \E side \in {"BUY", "SELL"} : \E amount \in TradeAmounts :
       /\ op' = "execute_trade"
       /\ arg' = [side |-> side, amount |-> amount]
       /\ IF ~can_trade(db, now) \/ Exceeds(amount, get_portfolio_balance(db))
            THEN /\ ret' = None
                 /\ log' = <<Row("portfolio", "error")>>
                 /\ UNCHANGED <<db, last_calls, sent, recorded>>
          ELSE \E a1 \in YfAnswers :
               LET s1 == YfBlock(StartPrice(last_calls), a1) IN
               \E a2 \in WebAnswers(s1, price_chain[2], api_keys, now) :
               LET s2 == WebBlock(s1, price_chain[2], api_keys, a2, now) IN
               \E a3 \in WebAnswers(s2, price_chain[3], api_keys, now) :
               LET s3 == WebBlock(s2, price_chain[3], api_keys, a3, now) IN
                 /\ last_calls' = s3.calls
                 /\ sent' = s3.sent
                 /\ recorded' = s3.recorded
                 /\ IF s3.ret = None
                      THEN /\ ret' = None
                           /\ log' = s3.log \o <<Row("portfolio", "error")>>
                           /\ UNCHANGED db
                    ELSE LET price == Float(s3.ret.value)
                             saved == save_trade(db, side, Ratio(amount, price), price, now)
                             w == update_portfolio_balance(
                                    saved, get_portfolio_balance(db) - amount, FALSE)
                         IN /\ db' = w.db
                            /\ ret' = [kind |-> "id", value |-> Len(saved.trades)]
                            /\ log' = s3.log \o <<Row("portfolio", "info")>>
  /\ UNCHANGED <<now, api_keys, stored_keys, tz, threads, granted, denied>>

NextTrading ==
  Tick \/ Deposit \/ Withdraw \/ ExecuteTrade \/ CloseTrade \/ DbCloseTrade \/ Return

SpecTrading == InitTrading /\ [][NextTrading]_vars

(***************************************************************************)
(* Claims                                                                  *)
(***************************************************************************)
\* positions of the ledger entries that are less than 60 seconds old at t
Fresh(calls, t) == {i \in 1..Len(calls) : t - calls[i] < Window}

\* a direct call of _check_rate_limit is being taken
CheckStep == op = "idle" /\ op' = "check"

\* C1: _check_rate_limit(P) removes from P's ledger exactly the timestamps
\* with now - t >= 60, keeps the others in order, touches no other ledger,
\* and returns true iff the number of remaining timestamps is < limits[P].
C1_CheckPrunesThenCompares ==
  [][CheckStep =>
       LET p == arg'
           old == last_calls[p]
           k == Len(old) - Cardinality(Fresh(old, now))
       IN /\ \A i \in 1..k : now - old[i] >= Window
          /\ last_calls'[p] = SubSeq(old, k + 1, Len(old))
          /\ \A i \in 1..Len(last_calls'[p]) : now - last_calls'[p][i] < Window
          /\ \A q \in Apis \ {p} : last_calls'[q] = last_calls[q]
          /\ ret'.value = (Len(last_calls'[p]) < limits[p])]_vars

\* C1 witness: a check refused a provider whose ledger is full, while the
\* ledger of another provider still holds a stale timestamp.
C1_Witness ==
  /\ op = "check"
  /\ ret.value = FALSE
  /\ Len(last_calls[arg]) = limits[arg]
  /\ \E q \in Apis \ {arg} : last_calls[q] # <<>> /\ now - last_calls[q][1] >= Window

\* C2: with limits[P] calls inside the trailing 60 seconds the check returns
\* false; and when the ledger holds no more than limits[P] calls and the
\* oldest of them is 60 seconds old or older, the check returns true again,
\* with no reset operation in between.
C2_BudgetExhaustsAndHeals ==
  [][CheckStep =>
       LET p == arg'
           old == last_calls[p]
       IN /\ Cardinality(Fresh(old, now)) >= limits[p] => ret'.value = FALSE
          /\ (old # <<>> /\ Len(old) <= limits[p] /\ now - old[1] >= Window)
               => ret'.value = TRUE]_vars

\* C2 witness: a provider that was refused, recorded nothing since, and is
\* let through again by a later check.
C2_Witness ==
  /\ op = "check"
  /\ arg \in denied
  /\ ret.value = TRUE
  /\ now >= Window

\* ---- get_market_data: what one invocation left behind ----
\* the order the claims speak of
ClaimedOrder == <<"finnhub", "twelve_data", "alpha_vantage", "yfinance">>
Chain == {ClaimedOrder[i] : i \in 1..Len(ClaimedOrder)}
Pos(p) == CHOOSE i \in 1..Len(ClaimedOrder) : ClaimedOrder[i] = p
Earlier(p) == {q \in Chain : Pos(q) < Pos(p)}
Later(p) == {q \in Chain : Pos(q) > Pos(p)}

\* the log rows about provider p
Rows(lg, p) == {lg[i].ev : i \in {j \in 1..Len(lg) : lg[j].api = p}}
\* the providers that got an outbound request
SentTo(snt) == {snt[i].api : i \in 1..Len(snt)}
\* the answer p's request came back with
RespOf(snt, p) ==
  IF p \in SentTo(snt) THEN snt[CHOOSE i \in 1..Len(snt) : snt[i].api = p].resp
  ELSE NoRequest
\* the providers handed to _record_api_call
Recorded(rcd) == {rcd[i] : i \in 1..Len(rcd)}

\* p has a credential (or needs none) and has budget left at time t
Eligible(lc, keys, p, t) ==
  /\ p = "yfinance" \/ p \in DOMAIN keys
  /\ Cardinality(Fresh(lc[p], t)) < limits[p]

\* what p's adapter gives for the answer it got
Outcome(keys, iv, snt, p) == Adapter(p, keys, iv, RespOf(snt, p))
\* p's adapter gives a non-empty bar sequence
Yields(keys, iv, snt, p) ==
  Outcome(keys, iv, snt, p).kind = "data" /\ Len(Outcome(keys, iv, snt, p).data) > 0

\* a get_market_data invocation is being taken
GmdStep == op = "idle" /\ op' = "get_market_data"

\* C3: the providers are tried in the order finnhub, twelve_data,
\* alpha_vantage, yfinance; a provider is attempted exactly when it is
\* eligible and no earlier provider has yielded bars; the result is that of
\* the first eligible provider that yields a non-empty bar sequence, and no
\* later provider is attempted, sent a request or recorded.
C3_FirstEligibleYieldingWins ==
  [][GmdStep =>
       \A p \in Chain :
         LET won(q) == Eligible(last_calls, api_keys, q, now) /\ Yields(api_keys, arg', sent', q)
             open == \A q \in Earlier(p) : ~won(q)
         IN /\ "try" \in Rows(log', p) <=> (open /\ Eligible(last_calls, api_keys, p, now))
            /\ (open /\ won(p)) =>
                 /\ ret' = [kind |-> "data", interval |-> arg',
                            data |-> Outcome(api_keys, arg', sent', p).data]
                 /\ \A q \in Later(p) :
                      /\ Rows(log', q) = {}
                      /\ q \notin SentTo(sent')
                      /\ q \notin Recorded(recorded')
                      /\ last_calls'[q] = last_calls[q]]_vars

\* C3 witness: twelve_data served the invocation after finnhub was tried
\* and failed; alpha_vantage has a credential and was not touched.
C3_Witness ==
  /\ op = "get_market_data"
  /\ ret # None
  /\ "ok" \in Rows(log, "twelve_data")
  /\ "try" \in Rows(log, "finnhub")
  /\ "alpha_vantage" \in DOMAIN api_keys
  /\ Rows(log, "alpha_vantage") = {}

\* C4 (as claimed): in one invocation a timestamp is appended only for the
\* provider whose non-empty bar sequence the invocation returns.
C4_RecordOnlyForReturnedBars ==
  op = "get_market_data" =>
    \A p \in Recorded(recorded) : ret # None /\ "ok" \in Rows(log, p)

\* C5: an adapter attempt that ends in a transport-level error adds no
\* timestamp for that provider and changes nothing that eligibility reads
\* (credential, budget): at every later time the provider is eligible
\* exactly as if the failed attempt had not been made; and every invocation
\* attempts every eligible provider it reaches.
C5_ErrorCostsNoBudget ==
  [][GmdStep =>
       /\ api_keys' = api_keys
       /\ \A p \in Chain :
            /\ RespOf(sent', p).kind = "error" =>
                 /\ p \notin Recorded(recorded')
                 /\ Len(last_calls'[p]) = Cardinality(Fresh(last_calls[p], now))
                 /\ \A t \in now..MaxTime :
                      Eligible(last_calls', api_keys', p, t) = Eligible(last_calls, api_keys, p, t)
            /\ (Eligible(last_calls, api_keys, p, now)
                  /\ \A q \in Earlier(p) : "ok" \notin Rows(log', q))
                 => "try" \in Rows(log', p)]_vars

\* C5 witness: a provider that had served an earlier invocation (its ledger
\* holds that call) is attempted, fails with a transport error and gets no
\* new entry.
C5_Witness ==
  /\ op = "get_market_data"
  /\ \E p \in Chain :
       /\ RespOf(sent, p).kind = "error"
       /\ "error" \in Rows(log, p)
       /\ Len(last_calls[p]) = 1
       /\ last_calls[p][1] < now

\* C6: a web provider without a credential gets no request and no recorded
\* call, its ledger is not touched, and the loop moves on to the next
\* provider; yfinance is attempted whenever the loop reaches it with budget
\* left.
C6_NoCredentialNoRequest ==
  [][GmdStep =>
       /\ \A p \in Chain \ {"yfinance"} :
            p \notin DOMAIN api_keys =>
              /\ p \notin SentTo(sent')
              /\ p \notin Recorded(recorded')
              /\ last_calls'[p] = last_calls[p]
              /\ Rows(log', p) \subseteq {"nokey"}
              /\ (\A q \in Earlier(p) : "ok" \notin Rows(log', q)) =>
                   /\ Rows(log', p) = {"nokey"}
                   /\ \A q \in Later(p) : Pos(q) = Pos(p) + 1 => Rows(log', q) # {}
       /\ ((\A q \in Earlier("yfinance") : "ok" \notin Rows(log', q))
             /\ Cardinality(Fresh(last_calls["yfinance"], now)) < limits["yfinance"])
            => "try" \in Rows(log', "yfinance")]_vars

\* C6 witness: finnhub has no credential and was skipped, twelve_data was
\* tried next, and yfinance, which has no credential either, served.
C6_Witness ==
  /\ op = "get_market_data"
  /\ "finnhub" \notin DOMAIN api_keys
  /\ Rows(log, "finnhub") = {"nokey"}
  /\ "try" \in Rows(log, "twelve_data")
  /\ "ok" \in Rows(log, "yfinance")
  /\ "yfinance" \notin DOMAIN api_keys

\* C7: an invocation that finds the one eligible provider X yielding bars
\* returns them and records exactly one call, for X; when X's limit is 1,
\* X stays ineligible for the next 60 seconds; and an
\* invocation in which every provider is rate-limited or without credential
\* attempts none, sends nothing, records nothing and returns None.
C7_ScenarioA ==
  [][GmdStep =>
       /\ \A x \in Chain :
            (/\ Eligible(last_calls, api_keys, x, now)
             /\ \A y \in Chain \ {x} : ~Eligible(last_calls, api_keys, y, now)
             /\ Yields(api_keys, arg', sent', x))
            => /\ ret' = [kind |-> "data", interval |-> arg',
                          data |-> Outcome(api_keys, arg', sent', x).data]
               /\ recorded' = <<x>>
               /\ SentTo(sent') = {x}
               /\ limits[x] = 1 =>
                    \A t \in now..MaxTime :
                      t - now < Window => ~Eligible(last_calls', api_keys', x, t)
       /\ (\A y \in Chain : ~Eligible(last_calls, api_keys, y, now))
            => /\ ret' = None
               /\ sent' = <<>>
               /\ recorded' = <<>>
               /\ \A y \in Chain : "try" \notin Rows(log', y)
               /\ \A y \in Chain : Len(last_calls'[y]) <= Len(last_calls[y])]_vars

\* C7 witness: the second invocation of the scenario: a provider with a
\* credential is refused because of a call recorded less than 60 seconds
\* ago, another has no credential, nothing is attempted, the result is None.
C7_Witness ==
  /\ op = "get_market_data"
  /\ ret = None
  /\ sent = <<>>
  /\ recorded = <<>>
  /\ \E x \in Chain \ {"yfinance"} :
       /\ x \in DOMAIN api_keys
       /\ Rows(log, x) = {"ratelimit"}
       /\ Len(last_calls[x]) = limits[x]
       /\ now - last_calls[x][1] < Window
  /\ \E y \in Chain : Rows(log, y) = {"nokey"}
  /\ \A y \in Chain : "try" \notin Rows(log, y)

\* C8: an attempted adapter that comes back with zero bars or with None is
\* logged as empty, its result is not returned, and the loop goes on to the
\* next provider in the order.
C8_EmptyIsFailure ==
  op = "get_market_data" =>
    \A p \in Chain :
      ("try" \in Rows(log, p)
         /\ Outcome(api_keys, arg, sent, p).kind # "raise"
         /\ ~Yields(api_keys, arg, sent, p))
      => /\ Rows(log, p) = {"try", "empty"}
         /\ ret # None => \E q \in Later(p) : "ok" \in Rows(log, q)
         /\ \A q \in Later(p) : Pos(q) = Pos(p) + 1 => Rows(log, q) # {}

\* C8 witness: finnhub answered 'ok' with zero candles, the loop went on
\* and a later provider served the invocation.
C8_Witness ==
  /\ op = "get_market_data"
  /\ RespOf(sent, "finnhub") = DataResp(<<>>)
  /\ Rows(log, "finnhub") = {"try", "empty"}
  /\ ret # None

\* C9: an adapter that raises is logged and absorbed: the invocation ends
\* with a return value, the loop goes on to the next provider, and the
\* non-empty result of the first later provider that yields one is returned.
C9_ErrorsAbsorbed ==
  op = "get_market_data" =>
    /\ ret.kind \in {"None", "data"}
    /\ \A p \in Chain :
         ("try" \in Rows(log, p) /\ Outcome(api_keys, arg, sent, p).kind = "raise")
         => /\ Rows(log, p) = {"try", "error"}
            /\ \A q \in Later(p) : Pos(q) = Pos(p) + 1 => Rows(log, q) # {}
            /\ \A q \in Later(p) :
                 ("try" \in Rows(log, q) /\ Yields(api_keys, arg, sent, q))
                 => ret = [kind |-> "data", interval |-> arg,
                           data |-> Outcome(api_keys, arg, sent, q).data]

\* C9 witness: a provider raised on a transport error and a later provider
\* served the invocation.
C9_Witness ==
  /\ op = "get_market_data"
  /\ ret # None
  /\ \E p \in Chain :
       /\ RespOf(sent, p) = ErrorResp
       /\ \E q \in Later(p) : "ok" \in Rows(log, q)

\* C10: an invocation ends with None or with a response whose bar sequence
\* is non-empty; with None exactly when every provider was skipped or
\* failed; and returned bars are those of an answer received in this very
\* invocation.
C10_DataOrNone ==
  op = "get_market_data" =>
    /\ ret = None \/ (ret.kind = "data" /\ ret.data # <<>>)
    /\ ret = None <=>
         \A p \in Chain :
           \/ Rows(log, p) \in {{"nokey"}, {"ratelimit"}}
           \/ Rows(log, p) \in {{"try", "error"}, {"try", "empty"}}
    /\ ret # None =>
         \E p \in SentTo(sent) :
           /\ RespOf(sent, p).kind = "data"
           /\ ret.data = Outcome(api_keys, arg, sent, p).data
           /\ ret.interval = arg

\* C10 witness: every provider was skipped or failed (one of each kind)
\* and the invocation returned None.
C10_Witness ==
  /\ op = "get_market_data"
  /\ ret = None
  /\ \E p \in Chain : Rows(log, p) = {"nokey"}
  /\ \E p \in Chain : Rows(log, p) = {"ratelimit"}
  /\ \E p \in Chain : Rows(log, p) = {"try", "error"}
  /\ \E p \in Chain : Rows(log, p) = {"try", "empty"}

\* an adapter has just come back with a response dict
AdapterGaveBars == op = "adapter" /\ ret.kind = "data"

\* C11: a response holds at most Cap bars (the source's 100), whichever
\* provider served it and however many records the payload carried.
C11_AtMostCapBars ==
  AdapterGaveBars => Len(ret.data) <= Cap

\* C12: the bars of a response are in non-decreasing timestamp order,
\* whichever provider served it and in whatever order the records came.
C12_BarsOldestFirst ==
  AdapterGaveBars =>
    \A i \in 1..Len(ret.data), j \in 1..Len(ret.data) :
      i < j => ret.data[i].t <= ret.data[j].t

\* the records of an answer
RecsOf(resp) == {resp.recs[i] : i \in 1..Len(resp.recs)}

\* the providers whose attempt of this invocation ended well
Served(lg) == {p \in Chain : Rows(lg, p) = {"try", "ok"}}

\* C13: the bars of a response all come from one adapter call to one
\* provider: exactly one provider of the invocation ended well, the bars are
\* what its adapter built from its answer, each of them is a record of that
\* answer, and every other provider that was asked failed or came back
\* empty and contributes nothing.
C13_BarsFromOneProvider ==
  (op = "get_market_data" /\ ret # None) =>
    /\ Cardinality(Served(log)) = 1
    /\ \A p \in Served(log) :
         /\ ret.data = Outcome(api_keys, arg, sent, p).data
         /\ \A i \in 1..Len(ret.data) : ret.data[i] \in RecsOf(RespOf(sent, p))
         /\ Len(ret.data) <= Len(RespOf(sent, p).recs)
         /\ \A q \in SentTo(sent) \ {p} :
              Rows(log, q) \in {{"try", "error"}, {"try", "empty"}}

\* C13 witness: an earlier provider's answer carried a well-formed record
\* before its adapter failed, a later provider served the response, and that
\* record is not among the bars.
C13_Witness ==
  /\ op = "get_market_data"
  /\ ret # None
  /\ \E p \in Served(log), q \in SentTo(sent) :
       /\ q \in Earlier(p)
       /\ Rows(log, q) = {"try", "error"}
       /\ \E r \in RecsOf(RespOf(sent, q)) :
            r.q = "ok" /\ \A i \in 1..Len(ret.data) : ret.data[i] # r

\* a get_api_status call is being taken
StatusStep == op = "idle" /\ op' = "get_api_status"

\* C14: get_api_status leaves the call ledger and the credential store as
\* they were (nothing pruned, nothing appended), so a fetch after it finds
\* every provider exactly as eligible as a fetch before it would have.
C14_StatusReadsOnly ==
  [][StatusStep =>
       /\ last_calls' = last_calls
       /\ api_keys' = api_keys
       /\ stored_keys' = stored_keys
       /\ \A p \in Apis :
            /\ CheckResult(last_calls', p, now') = CheckResult(last_calls, p, now)
            /\ CheckCalls(last_calls', p, now') = CheckCalls(last_calls, p, now)]_vars

\* C14 witness: a status was taken while a ledger held a timestamp that is
\* 60 seconds old, and the timestamp is still there.
C14_Witness ==
  /\ op = "get_api_status"
  /\ \E p \in Apis : \E i \in 1..Len(last_calls[p]) : now - last_calls[p][i] >= Window
  /\ \E p \in Apis : \E i \in 1..Len(last_calls[p]) : now - last_calls[p][i] < Window

\* C15: for every provider the status reports has_key = the provider is in
\* the credential store, limit = limits[P], and remaining_calls =
\* max(0, limit - number of ledger timestamps less than 60 seconds old);
\* so 0 <= remaining_calls <= limit.
C15_StatusValues ==
  op = "get_api_status" =>
    \A p \in Apis :
      /\ ret[p].has_key = (p \in DOMAIN api_keys)
      /\ ret[p].limit = limits[p]
      /\ LET recent == Cardinality(Fresh(last_calls[p], now))
         IN ret[p].remaining_calls =
              (IF limits[p] - recent > 0 THEN limits[p] - recent ELSE 0)
      /\ 0 <= ret[p].remaining_calls
      /\ ret[p].remaining_calls <= limits[p]

\* C15 witness: one status reports a provider with its whole limit left
\* although its ledger holds a stale timestamp, a provider with part of its
\* limit left, and a provider with nothing left.
C15_Witness ==
  /\ op = "get_api_status"
  /\ \E p \in Apis : last_calls[p] # <<>> /\ ret[p].remaining_calls = limits[p]
  /\ \E p \in Apis : 0 < ret[p].remaining_calls /\ ret[p].remaining_calls < limits[p]
  /\ \E p \in Apis : ret[p].remaining_calls = 0
  /\ \E p \in Apis : ret[p].has_key
  /\ \E p \in Apis : ~ret[p].has_key

\* an update_api_keys call is being taken
UpdateStep == op = "idle" /\ op' = "update_api_keys"

\* the values the claims call blank: empty or white space only
BlankValues == {"", " "}

\* C16: update_api_keys never overwrites or removes a credential with a
\* blank value: for every provider whose value in the argument is empty or
\* white space only, the credential in memory and the row in the table are
\* after the call what they were before it.
C16_BlankValuesIgnored ==
  [][UpdateStep =>
       \A p \in DOMAIN arg' :
         arg'[p] \in BlankValues =>
           /\ (p \in DOMAIN api_keys') = (p \in DOMAIN api_keys)
           /\ p \in DOMAIN api_keys => api_keys'[p] = api_keys[p]
           /\ (p \in DOMAIN stored_keys') = (p \in DOMAIN stored_keys)
           /\ p \in DOMAIN stored_keys => stored_keys'[p] = stored_keys[p]]_vars

\* C16 witness: a call named one provider with white space and another with
\* a new secret; the first kept its credential, the second got the new one.
C16_Witness ==
  /\ op = "update_api_keys"
  /\ \E p \in DOMAIN arg, q \in DOMAIN arg :
       /\ arg[p] = " "
       /\ p \in DOMAIN api_keys /\ api_keys[p] = "k1"
       /\ p \in DOMAIN stored_keys /\ stored_keys[p] = KeyRow("k1")
       /\ arg[q] = "k2"
       /\ api_keys[q] = "k2"

\* C17: the credentials in memory are the active rows of the table at
\* start, and every update_api_keys call that returns normally keeps them
\* so: the non-blank entries of the argument are set in both, the providers
\* the argument does not name (or names with a blank) are unchanged in both,
\* and the call ledger is not touched.
C17_MemoryIsActiveRows ==
  /\ api_keys = get_api_keys(stored_keys)
  /\ [][(UpdateStep /\ ret' = None /\ api_keys = get_api_keys(stored_keys)) =>
          /\ api_keys' = get_api_keys(stored_keys')
          /\ \A p \in DOMAIN arg' :
               arg'[p] \notin BlankValues =>
                 /\ p \in DOMAIN api_keys' /\ api_keys'[p] = arg'[p]
                 /\ p \in DOMAIN stored_keys'
                 /\ stored_keys'[p] = [api_key |-> arg'[p], is_active |-> TRUE]
          /\ \A p \in Apis \ {q \in DOMAIN arg' : arg'[q] \notin BlankValues} :
               /\ (p \in DOMAIN api_keys') = (p \in DOMAIN api_keys)
               /\ p \in DOMAIN api_keys => api_keys'[p] = api_keys[p]
               /\ (p \in DOMAIN stored_keys') = (p \in DOMAIN stored_keys)
               /\ p \in DOMAIN stored_keys => stored_keys'[p] = stored_keys[p]
          /\ last_calls' = last_calls]_vars

\* C17 witness: a call that returned normally replaced one credential, left
\* alone a row that is switched off, and found a ledger with a timestamp.
C17_Witness ==
  /\ op = "update_api_keys"
  /\ ret = None
  /\ api_keys = get_api_keys(stored_keys)
  /\ \E p \in DOMAIN arg : arg[p] = "k2" /\ api_keys[p] = "k2"
  /\ \E q \in DOMAIN stored_keys : q \notin DOMAIN arg /\ ~stored_keys[q].is_active
  /\ \E p \in Apis : last_calls[p] # <<>>

\* the articles provider p handed to get_news in the invocation whose
\* requests are snt
NewsOf(snt, limit, off, p) ==
  IF p \in SentTo(snt) THEN NewsAdapter(p, RespOf(snt, p), limit \div 2, off).news
  ELSE <<>>
\* all_news, in the order accumulated
Accumulated(snt, limit, off) ==
  NewsOf(snt, limit, off, "newsapi") \o NewsOf(snt, limit, off, "finnhub")
Urls(s) == {s[i].url : i \in 1..Len(s)}
\* the first article of s with URL u
FirstWith(s, u) == s[CHOOSE i \in 1..Len(s) : s[i].url = u /\ \A j \in 1..(i - 1) : s[j].url # u]
\* the URLs that both providers returned
SharedUrls(snt, limit, off) ==
  Urls(NewsOf(snt, limit, off, "newsapi")) \cap Urls(NewsOf(snt, limit, off, "finnhub"))

\* C18 as stated: no two articles of the result have the same URL, and of a
\* URL that both providers returned exactly one article, the first one
\* accumulated, is in the result.
C18_ExactlyOnePerSharedUrl ==
  op = "get_news" =>
    /\ \A i \in 1..Len(ret), j \in 1..Len(ret) : ret[i].url = ret[j].url => i = j
    /\ \A u \in SharedUrls(sent, arg, tz) :
         /\ Cardinality({i \in 1..Len(ret) : ret[i].url = u}) = 1
         /\ \A i \in 1..Len(ret) :
              ret[i].url = u => ret[i] = FirstWith(Accumulated(sent, arg, tz), u)

\* C18, amended: no two articles of the result have the same URL; of a URL
\* that both providers returned at most one article is in the result, and
\* it is the first one accumulated; it is in the result whenever the
\* accumulated articles have no more than limit distinct URLs (otherwise the
\* truncation can cut it).
C18_AtMostOnePerUrl ==
  op = "get_news" =>
    /\ \A i \in 1..Len(ret), j \in 1..Len(ret) : ret[i].url = ret[j].url => i = j
    /\ \A u \in SharedUrls(sent, arg, tz) :
         /\ Cardinality({i \in 1..Len(ret) : ret[i].url = u}) <= 1
         /\ \A i \in 1..Len(ret) :
              ret[i].url = u => ret[i] = FirstWith(Accumulated(sent, arg, tz), u)
         /\ Cardinality(Urls(Accumulated(sent, arg, tz))) <= arg =>
              \E i \in 1..Len(ret) : ret[i].url = u

\* C18 witness: both providers returned an article with the same URL and
\* different publication times; the result holds NewsAPI's and not Finnhub's.
C18_Witness ==
  /\ op = "get_news"
  /\ \E u \in SharedUrls(sent, arg, tz) :
       /\ \E i \in 1..Len(ret) : ret[i].url = u /\ ret[i].source = "NewsAPI"
       /\ \E a \in {NewsOf(sent, arg, tz, "finnhub")[i] :
                      i \in 1..Len(NewsOf(sent, arg, tz, "finnhub"))} :
            /\ a.url = u
            /\ a.published_at.clock # FirstWith(Accumulated(sent, arg, tz), u).published_at.clock
            /\ \A i \in 1..Len(ret) : ret[i] # a

\* the instant an article was published at, read back from its published_at
Instant(a) ==
  IF a.published_at.z THEN a.published_at.clock ELSE a.published_at.clock - tz

\* C19: the result of get_news(symbol, limit) is sorted by publication
\* time, most recent first, has at most limit articles, and its articles
\* are the most recent ones of the de-duplicated union.
C19_MostRecentFirst ==
  op = "get_news" =>
    /\ Len(ret) <= arg
    /\ \A i \in 1..Len(ret), j \in 1..Len(ret) :
         i < j => Instant(ret[i]) >= Instant(ret[j])
    /\ LET union == Dedup(Accumulated(sent, arg, tz))
       IN \A k \in 1..Len(union) :
            (\A i \in 1..Len(ret) : ret[i] # union[k]) =>
               \A i \in 1..Len(ret) : Instant(ret[i]) >= Instant(union[k])

\* a get_news invocation is being taken
NewsStep == op = "idle" /\ op' = "get_news"
NewsProviders == {"newsapi", "finnhub"}

\* C20: get_news accumulates: every provider that has a credential and
\* budget left is asked, whatever the other one returned; the articles of a
\* provider stay in the result when the other one fails, has no credential
\* or no budget (up to the truncation to limit); and when neither gives
\* anything the result is the empty list.
C20_Accumulates ==
  [][NewsStep =>
       LET all == Accumulated(sent', arg', tz)
       IN /\ SentTo(sent') = {p \in NewsProviders : Eligible(last_calls, api_keys, p, now)}
          /\ Urls(ret') \subseteq Urls(all)
          /\ Cardinality(Urls(all)) <= arg' => Urls(ret') = Urls(all)
          /\ Len(ret') = Min(arg', Cardinality(Urls(all)))
          /\ \A p \in NewsProviders :
               Urls(NewsOf(sent', arg', tz, p)) \subseteq Urls(all)
          /\ (\A p \in NewsProviders :
                p \notin SentTo(sent') \/ RespOf(sent', p).kind = "error") => ret' = <<>>]_vars

\* C20 witness: both providers were asked although NewsAPI had returned
\* articles; Finnhub failed; the result holds NewsAPI's articles.
C20_Witness ==
  /\ op = "get_news"
  /\ SentTo(sent) = NewsProviders
  /\ RespOf(sent, "newsapi").kind = "data"
  /\ RespOf(sent, "finnhub").kind = "error"
  /\ ret # <<>>
  /\ Urls(ret) = Urls(NewsOf(sent, arg, tz, "newsapi"))

\* a get_current_price invocation is being taken
PriceStep == op = "idle" /\ op' = "get_current_price"

ClaimedPriceOrder == <<"yfinance", "finnhub", "twelve_data">>
PricePos(p) == CHOOSE i \in 1..Len(ClaimedPriceOrder) : ClaimedPriceOrder[i] = p
PriceChain == {ClaimedPriceOrder[i] : i \in 1..Len(ClaimedPriceOrder)}

\* the answer p got in the invocation whose requests are snt
AnswerOf(snt, p) ==
  IF p \in SentTo(snt) THEN snt[CHOOSE i \in 1..Len(snt) : snt[i].api = p].resp
  ELSE NoQuote
\* the quote that p's answer carries: currentPrice, 'c' or 'price', and for
\* yfinance the last Close when currentPrice is not there
QuoteOf(snt, p) ==
  LET a == AnswerOf(snt, p)
  IN IF a.kind # "data" THEN "none"
     ELSE IF p = "yfinance" /\ a.price = "none" THEN a.close
     ELSE a.price
\* p's answer carries a price
YieldsPrice(snt, p) == QuoteOf(snt, p) \in {"10", "20"}

\* C21: get_current_price goes through yfinance, finnhub, twelve_data in
\* that order; yfinance is always asked; finnhub and twelve_data are asked
\* exactly when no earlier provider gave a price, the credential is there
\* and the budget is not used up; the result is the price of the first
\* provider that gives one; no error reaches the caller; and the result is
\* None exactly when no provider gave a price.
C21_PriceChain ==
  [][PriceStep =>
       /\ "yfinance" \in SentTo(sent')
       /\ \A p \in PriceChain \ {"yfinance"} :
            p \in SentTo(sent') <=>
              /\ Eligible(last_calls, api_keys, p, now)
              /\ \A q \in PriceChain : PricePos(q) < PricePos(p) => ~YieldsPrice(sent', q)
       /\ \A i \in 1..Len(sent'), j \in 1..Len(sent') :
            i < j => PricePos(sent'[i].api) < PricePos(sent'[j].api)
       /\ ret' = None \/ ret'.kind = "price"
       /\ ret' = None <=> \A p \in PriceChain : ~YieldsPrice(sent', p)
       /\ \A p \in PriceChain :
            (YieldsPrice(sent', p) /\ p \in SentTo(sent')) =>
               ret' = Price(QuoteOf(sent', p))]_vars

\* C21 witness: yfinance raised, Finnhub answered without a price, and
\* Twelve Data gave the price that was returned.
C21_Witness ==
  /\ op = "get_current_price"
  /\ AnswerOf(sent, "yfinance").kind = "error"
  /\ AnswerOf(sent, "finnhub").kind = "data"
  /\ QuoteOf(sent, "finnhub") = "none"
  /\ YieldsPrice(sent, "twelve_data")
  /\ ret = Price(QuoteOf(sent, "twelve_data"))

\* C28: one get_current_price invocation appends at most one timestamp, and
\* only to the ledger of the web provider whose price it returns; when
\* yfinance gives the price, when the result is None, and for a web provider
\* that raised or gave no price, nothing is appended.
C28_RecordsOnlyReturnedPrice ==
  [][PriceStep =>
       /\ Len(recorded') <= 1
       /\ \A p \in Recorded(recorded') :
            /\ p \in {"finnhub", "twelve_data"}
            /\ YieldsPrice(sent', p)
            /\ ret' = Price(QuoteOf(sent', p))
       /\ \A p \in Apis :
            (ret' = None \/ ~YieldsPrice(sent', p)) =>
               Len(last_calls'[p]) <= Len(last_calls[p])]_vars

\* the number of entries of s that satisfy Test
Count(s, Test(_)) == Cardinality({i \in 1..Len(s) : Test(s[i])})

\* C22: with two threads on the shared APIManager no recorded call is
\* lost and no budget is exceeded: every timestamp that _record_api_call
\* appended is in the ledger as long as it is less than 60 seconds old, and
\* the calls recorded for a provider inside the trailing 60 seconds never
\* number more than its limit.
C22_LedgerSerialized ==
  \A p \in ThreadApis :
    /\ \A c \in 0..now :
         now - c < Window =>
           Count(last_calls[p], LAMBDA x : x = c)
             >= Count(recorded, LAMBDA r : r.api = p /\ r.at = c)
    /\ Count(recorded, LAMBDA r : r.api = p /\ now - r.at < Window) <= limits[p]


\* C23: for an interval outside {1m, 30m, 1D} every adapter fails before it
\* sends anything: get_market_data makes no outbound request, records no
\* call (no ledger grows) and returns None.
ClaimedIntervals == {"1m", "30m", "1D"}

C23_UnsupportedInterval ==
  [][GmdStep /\ arg' \notin ClaimedIntervals =>
       /\ sent' = <<>>
       /\ recorded' = <<>>
       /\ ret' = None
       /\ \A p \in Apis : Len(last_calls'[p]) <= Len(last_calls[p])]_vars

C23_Witness ==
  /\ op = "get_market_data"
  /\ arg \notin ClaimedIntervals
  /\ DOMAIN api_keys = Apis \ {"yfinance"}
  /\ \A p \in Apis : Len(last_calls[p]) < limits[p]
  /\ ret = None


\* C24: when a payload holds well-formed and malformed records (a missing
\* field, a non-numeric value, a null value, column arrays of unequal
\* length), the Finnhub, Twelve Data and Alpha Vantage adapters do not fail
\* and return exactly the well-formed records.  (The order of the bars is
\* the subject of C12; here the bars are compared as a collection.)
Malformed == {"missing", "nonnum", "null"}

MixedPayload ==
  /\ op = "adapter"
  /\ arg \in {"finnhub", "twelve_data", "alpha_vantage"}
  /\ sent # <<>>
  /\ sent[1].resp.kind = "data"
  /\ HasQ(sent[1].resp.recs, {"ok"})
  /\ HasQ(sent[1].resp.recs, Malformed)

C24_MalformedRecordsSkipped ==
  MixedPayload =>
    /\ ret.kind = "data"
    /\ Len(ret.data) = Len(OnlyOk(sent[1].resp.recs))
    /\ \A i \in 1..Len(ret.data) : ret.data[i].q = "ok"
    /\ {ret.data[i] : i \in 1..Len(ret.data)}
         = {r \in {sent[1].resp.recs[i] : i \in 1..Len(sent[1].resp.recs)} : r.q = "ok"}


\* C25: right after _check_rate_limit(P) returns, P's ledger holds only
\* timestamps less than 60 seconds old, in the order they were recorded; the
\* check never removes a timestamp that is still inside the window.
C25_LedgerAfterCheck ==
  [][CheckStep =>
       LET new == last_calls'[arg']
           old == last_calls[arg']
       IN /\ \A i \in 1..Len(new) : now - new[i] < Window
          /\ \A i, j \in 1..Len(new) : i < j => new[i] <= new[j]
          /\ \A c \in 0..now :
               now - c < Window =>
                 Count(new, LAMBDA x : x = c) = Count(old, LAMBDA x : x = c)]_vars

\* C25 witness: a check at a time when calls can be stale returned, and the
\* ledger it leaves holds two calls recorded at different times.
C25_Witness ==
  /\ op = "check"
  /\ now >= Window
  /\ Len(last_calls[arg]) = 2
  /\ last_calls[arg][1] < last_calls[arg][2]


\* C27: the status view and the limiter agree: at the instant of the status,
\* _check_rate_limit(P) would return true exactly when get_api_status
\* reports remaining_calls > 0 for P; a call exactly 60 seconds old counts
\* for neither.
C27_StatusAgreesWithLimiter ==
  op = "get_api_status" =>
    \A p \in Apis :
      (ret[p].remaining_calls > 0) = CheckResult(last_calls, p, now)

\* C27 witness: a status taken when one provider's ledger is full of calls
\* exactly 60 seconds old (it is let through) and another provider's ledger
\* is full of calls inside the window (it is refused).
C27_Witness ==
  /\ op = "get_api_status"
  /\ \E p \in Apis :
       /\ Len(last_calls[p]) = limits[p]
       /\ \A i \in 1..Len(last_calls[p]) : now - last_calls[p][i] = Window
       /\ ret[p].remaining_calls = limits[p]
       /\ CheckResult(last_calls, p, now)
  /\ \E p \in Apis :
       /\ ret[p].remaining_calls = 0
       /\ ~CheckResult(last_calls, p, now)


\* C26: when get_market_data, get_current_price and get_news are called one
\* after the other, in any mix, the ledger of every provider never holds
\* more than limits[P] timestamps.
C26_LedgerWithinLimit ==
  \A p \in Apis : Len(last_calls[p]) <= limits[p]


\* C26 witness: get_current_price has just recorded the call that fills
\* Finnhub's ledger, while the ledgers of the other market-data providers
\* were filled by earlier operations, one of them with a call that is stale
\* by now.
C26_Witness ==
  /\ op = "get_current_price"
  /\ recorded = <<"finnhub">>
  /\ \A p \in Chain : Len(last_calls[p]) = limits[p]
  /\ \E p \in Chain : now - last_calls[p][1] >= Window


\* C29 (as claimed): no operation removes a provider from the in-memory
\* credential store, and the first get_market_data after update_api_keys
\* gave a provider its first credential attempts that provider, provided
\* its rate-limit check passes.
C29_GrantedIsAttempted ==
  /\ [][DOMAIN api_keys \subseteq DOMAIN api_keys']_vars
  /\ [][GmdStep =>
          \A p \in granted :
            CheckResult(last_calls, p, now) => "try" \in Rows(log', p)]_vars

\* C29 (amended): no operation removes a provider from the in-memory
\* credential store, and the first get_market_data after update_api_keys
\* gave a provider of the chain its first credential never skips it for want
\* of a credential: it attempts the provider when the rate-limit check
\* passes and no earlier provider of the chain has yielded bars.
C29_GrantedIsNotSkipped ==
  /\ [][DOMAIN api_keys \subseteq DOMAIN api_keys']_vars
  /\ [][GmdStep =>
          \A p \in granted \cap Chain :
            LET won(q) == Eligible(last_calls, api_keys, q, now) /\ Yields(api_keys, arg', sent', q)
            IN /\ "nokey" \notin Rows(log', p)
               /\ (CheckResult(last_calls, p, now) /\ \A q \in Earlier(p) : ~won(q))
                    => "try" \in Rows(log', p)]_vars

\* C29 witness: get_market_data attempted twelve_data, which got its first
\* credential since the previous invocation, after finnhub gave no bars.
C29_Witness ==
  /\ op = "get_market_data"
  /\ "try" \in Rows(log, "twelve_data")
  /\ "try" \in Rows(log, "finnhub")
  /\ "twelve_data" \in DOMAIN api_keys
  /\ "twelve_data" \in granted
  /\ "finnhub" \notin granted
  /\ ret = None


\* a close_trade of either layer is being taken
CloseStep == op = "idle" /\ op' \in {"close_trade", "db_close_trade"}

\* the id names no trade, or a trade that is CLOSED
NotOpen(tbl, id) == id \notin 1..Len(tbl) \/ tbl[id].status = "CLOSED"

\* the trade id a close_trade was called with
ClosedId(o, a) == IF o = "db_close_trade" THEN a.id ELSE a

\* C30: a trade's status only moves from OPEN to CLOSED, at most once (a
\* CLOSED row never changes again); close_trade on an id that does not
\* exist or is already CLOSED fails - ValueError from
\* DatabaseManager.close_trade, False from PortfolioManager.close_trade -
\* and changes neither a trade's exit price and P&L nor the balance.
C30_ClosedStaysClosed ==
  /\ [][/\ Len(db'.trades) >= Len(db.trades)
        /\ \A id \in 1..Len(db.trades) :
             /\ db'.trades[id].status # db.trades[id].status =>
                  db.trades[id].status = "OPEN" /\ db'.trades[id].status = "CLOSED"
             /\ db.trades[id].status = "CLOSED" => db'.trades[id] = db.trades[id]]_vars
  /\ [][(CloseStep /\ NotOpen(db.trades, ClosedId(op', arg'))) =>
          /\ db'.trades = db.trades
          /\ db'.portfolio = db.portfolio
          /\ op' = "db_close_trade" => ret'.kind = "raise" /\ ret'.error = "ValueError"
          /\ op' = "close_trade" => ret' = Bool(FALSE)]_vars

\* C30 witness: PortfolioManager.close_trade has answered False for a trade
\* that is CLOSED, and the row still has the exit price and P&L it had.
C30_Witness ==
  /\ op = "close_trade"
  /\ arg \in 1..Len(db.trades)
  /\ db.trades[arg] = ClosedTrade(OpenTrade("BUY", 2, 10, 0), 20)
  /\ ret = Bool(FALSE)
  /\ db.portfolio.balance = StartBalance


\* C37: DatabaseManager.close_trade on an OPEN trade completes: the balance
\* update it makes through a second connection is not blocked by the write
\* lock of the transaction that is updating the trade row, and afterwards
\* the trade is CLOSED and the balance movement is committed.
C37_CloseCommits ==
  [][(op = "idle" /\ op' = "db_close_trade" /\ ~NotOpen(db.trades, arg'.id)) =>
       /\ ret'.kind = "value"
       /\ db'.trades[arg'.id].status = "CLOSED"
       /\ Len(db'.portfolio_movements) = Len(db.portfolio_movements) + 1
       /\ db'.portfolio.balance = db.portfolio.balance + Pnl(db.trades[arg'.id], arg'.exit)]_vars


\* an execute_trade call is being taken
ExecStep == op = "idle" /\ op' = "execute_trade"

\* the number of trades with status OPEN
OpenCount(tbl) == Cardinality({i \in 1..Len(tbl) : tbl[i].status = "OPEN"})

\* C31: after any series of execute_trade and close_trade calls the number
\* of OPEN trades never exceeds max_open_trades (1), and execute_trade
\* returns None and inserts no trade whenever can_trade reports a violated
\* rule (open-trade limit, daily trade limit, daily profit target).
C31_OpenTradesWithinLimit ==
  /\ [](OpenCount(db.trades) <= 1)
  /\ [][(ExecStep /\ Reasons(db, now) # {}) =>
          /\ ret' = None
          /\ db'.trades = db.trades]_vars

\* C31 witness: execute_trade has refused an affordable trade, without
\* asking for a price, while one trade is OPEN.
C31_Witness ==
  /\ op = "execute_trade"
  /\ ret = None
  /\ sent = <<>>
  /\ OpenCount(db.trades) = 1
  /\ arg.amount > 0
  /\ arg.amount <= db.portfolio.balance
  /\ Len(db.portfolio_movements) > 1


\* a deposit or a withdraw call is being taken
FundsStep == op = "idle" /\ op' \in {"deposit", "withdraw"}

\* C32: deposit(amount) with amount <= 0, and withdraw(amount) with
\* amount <= 0 or amount greater than the balance, return False and leave
\* balance, total_deposited, total_withdrawn and the movement list as they
\* were; otherwise the balance changes by exactly +amount or -amount and one
\* movement is recorded.
C32_InvalidAmountsRejected ==
  [][FundsStep =>
       LET balance == db.portfolio.balance
           sign == IF op' = "deposit" THEN 1 ELSE -1
           invalid == arg' <= 0 \/ (op' = "withdraw" /\ arg' > balance)
       IN IF invalid
            THEN /\ ret' = Bool(FALSE)
                 /\ db'.portfolio = db.portfolio
                 /\ db'.portfolio_movements = db.portfolio_movements
          ELSE /\ ret' = Bool(TRUE)
               /\ db'.portfolio.balance = balance + sign * arg'
               /\ Len(db'.portfolio_movements) = Len(db.portfolio_movements) + 1
               /\ SubSeq(db'.portfolio_movements, 1, Len(db.portfolio_movements))
                    = db.portfolio_movements]_vars

\* C32 witness: a withdrawal of more than the balance was refused after an
\* earlier withdrawal had been carried out.
C32_Witness ==
  /\ op = "withdraw"
  /\ arg > db.portfolio.balance
  /\ ret = Bool(FALSE)
  /\ db.portfolio.total_withdrawn > 0
  /\ db.portfolio.balance + db.portfolio.total_withdrawn = db.portfolio.total_deposited


\* C33: execute_trade is all-or-nothing.  When it returns None (a trading
\* rule is violated, the amount is greater than the balance, or no price
\* was obtained) no trade row was inserted and the balance is unchanged;
\* when it returns a trade id, exactly one OPEN trade with quantity =
\* amount / price was inserted, under that id, and the balance was reduced
\* by exactly amount.
C33_ExecuteAllOrNothing ==
  [][ExecStep =>
       LET balance == db.portfolio.balance
           n == Len(db.trades)
       IN /\ (Reasons(db, now) # {} \/ arg'.amount > balance) => ret' = None
          /\ IF ret' = None
               THEN /\ db'.trades = db.trades
                    /\ db'.portfolio.balance = balance
             ELSE /\ Len(db'.trades) = n + 1
                  /\ SubSeq(db'.trades, 1, n) = db.trades
                  /\ ret'.value = n + 1
                  /\ db'.trades[n + 1].status = "OPEN"
                  /\ db'.trades[n + 1].side = arg'.side
                  /\ db'.trades[n + 1].quantity.num = arg'.amount
                  /\ db'.trades[n + 1].quantity.den = db'.trades[n + 1].entry_price
                  /\ db'.portfolio.balance = balance - arg'.amount]_vars

\* C33 witness: execute_trade has opened a SELL trade with all of the
\* balance, on a table that already held a CLOSED trade.
C33_Witness ==
  /\ op = "execute_trade"
  /\ ret # None
  /\ arg.side = "SELL"
  /\ arg.amount > 0
  /\ db.portfolio.balance = 0
  /\ Len(db.trades) > 1
  /\ db.trades[ret.value].status = "OPEN"

\* C33 second case: execute_trade has given up for want of a price, after
\* the providers were asked.
C33_NoPriceWitness ==
  /\ op = "execute_trade"
  /\ ret = None
  /\ sent # <<>>


\* the movement list
Movements == db.portfolio_movements

\* C34: the movement log is a faithful history of the balance: every change
\* of the balance appends exactly one movement whose balance_before is the
\* balance before the change and whose balance_after is the balance after
\* it; so each movement's balance_before is the previous movement's
\* balance_after, and the latest balance_after is the current balance.
C34_MovementsFollowBalance ==
  /\ [](/\ Movements # <<>>
        /\ Movements[Len(Movements)].balance_after = db.portfolio.balance
        /\ \A i \in 2..Len(Movements) :
             Movements[i].balance_before = Movements[i - 1].balance_after)
  /\ [][db'.portfolio.balance # db.portfolio.balance =>
          /\ Len(db'.portfolio_movements) = Len(db.portfolio_movements) + 1
          /\ SubSeq(db'.portfolio_movements, 1, Len(db.portfolio_movements))
               = db.portfolio_movements
          /\ db'.portfolio_movements[Len(db'.portfolio_movements)].balance_before
               = db.portfolio.balance
          /\ db'.portfolio_movements[Len(db'.portfolio_movements)].balance_after
               = db'.portfolio.balance]_vars

\* C34 witness: the log holds the opening deposit, a withdrawal, a deposit
\* and the movement of a trade that was opened, in a chain that ends at the
\* current balance.
C34_Witness ==
  /\ Len(Movements) = 4
  /\ {Movements[i].type : i \in 1..Len(Movements)} = {"DEPOSIT", "WITHDRAWAL", "TRADE"}
  /\ Movements[4].type = "TRADE"
  /\ Movements[4].amount < 0
  /\ Movements[4].balance_after = db.portfolio.balance
  /\ op = "execute_trade"


JustOpened ==
  /\ Len(Movements) > 1
  /\ db.trades # <<>>
  /\ Movements[Len(Movements)].type = "TRADE"
  /\ db.trades[Len(db.trades)].status = "OPEN"
  /\ db.trades[Len(db.trades)].quantity.num > 0
  /\ Movements[Len(Movements)].amount = 0 - db.trades[Len(db.trades)].quantity.num

\* C36: opening and closing a trade conserves capital: when a trade was
\* opened with amount A at balance B and is closed next, with
\* profit-and-loss pnl, the balance after the close is B + pnl; closing at
\* the entry price restores the balance to B.
C36_OpenCloseConservesCapital ==
  [][(op = "idle" /\ op' = "db_close_trade" /\ JustOpened /\ arg'.id = Len(db.trades)) =>
       db'.portfolio.balance
         = Movements[Len(Movements)].balance_before
             + Pnl(db.trades[Len(db.trades)], arg'.exit)]_vars

=============================================================================
